---- MODULE Spec2Model ----
(***************************************************************************)
(* Verification model of parts of the jamaica-dev-kit repository:          *)
(*   - apps/ai-assistant-api: SessionStore, the /chat and /sessions        *)
(*     handlers, RAGPipeline.query and RAGPipeline.ingest_documents;       *)
(*   - toolkit/jamaica-holidays: the holiday calendar functions;           *)
(*   - toolkit/jamaica-trn, jamaica-phone, jamaica-addresses: the          *)
(*     validators, formatters and parsers.                                 *)
(***************************************************************************)
EXTENDS Integers, Sequences, FiniteSets, TLC

VARIABLES
    sessions,   \* SessionStore._sessions: session ID -> reference of a _Session object
    objs,       \* heap of _Session objects: reference -> .messages
    uuidCount,  \* number of uuid4() values drawn so far
    call,       \* the last completed call of the sequential driver
    thr,        \* per thread: the SessionStore call in progress and its locals
    ragAvailable, \* main._rag_available (and rag_pipeline is not None)
    reqs,       \* per POST /chat request: its position and the locals of chat and query
    got,        \* the response of the last GET /sessions/{session_id}
    files,      \* the JSON data files on disk, as the raw documents they yield
    cache,      \* the lru_cache of the data loaders
    store,      \* the persistent Chroma collection "jamaica_gov"
    idCount,    \* number of document IDs the vector store has generated
    ingested,   \* RAGPipeline._ingested
    lastIngest, \* the last completed ingest_documents call
    hcall,      \* the last call of a jamaica_holidays function and its result
    fcall,      \* the last call of a jamaica_trn, jamaica_phone or jamaica_addresses
                \* function and its result
    gen         \* generate_test_trn: its position and locals

storeVars == <<sessions, objs, uuidCount>>
chatVars == <<ragAvailable, reqs, got>>
ingestVars == <<files, cache, store, idCount, ingested, lastIngest>>
\* what the actions of each specification leave alone
toolVars == <<fcall, gen>>
storeFrame == <<thr, chatVars, ingestVars, hcall, toolVars>>
threadFrame == <<call, chatVars, ingestVars, hcall, toolVars>>
chatFrame == <<call, thr, ingestVars, hcall, toolVars>>
ingestFrame == <<storeVars, call, thr, chatVars, hcall, toolVars>>
holidayFrame == <<storeVars, call, thr, chatVars, ingestVars, toolVars>>
toolFrame == <<storeVars, call, thr, chatVars, ingestVars, hcall, gen>>
genFrame == <<storeVars, call, thr, chatVars, ingestVars, hcall, fcall>>
vars == <<sessions, objs, uuidCount, call, thr, ragAvailable, reqs, got,
          files, cache, store, idCount, ingested, lastIngest, hcall, fcall, gen>>

(***************************************************************************)
(* Bounds                                                                  *)
(***************************************************************************)
MaxObjs == 2    \* _Session objects allocated in one behaviour
MaxLen == 2     \* messages appended to one _Session by the sequential driver
MaxCalls == 2   \* SessionStore calls made by one thread
MaxReqs == 2    \* POST /chat requests in one behaviour of the service
MaxTurns == 7   \* turns persisted in one session
MaxIds == 6     \* document IDs generated by the vector store in one behaviour
YearLo == 2016  \* first year whose dates are given to the holiday functions
YearHi == 2044  \* last such year
MaxSpan == 5    \* longest date range given to get_working_days, in days

(***************************************************************************)
(* Values                                                                  *)
(***************************************************************************)
None == "<None>"                 \* Python's None
UserIds == {"", "a"}             \* session IDs a client may send (besides issued ones)
Roles == {"user", "assistant"}
Contents == {"x"}

\* uuid.uuid4().hex: the n-th value drawn; distinct from every other ID
Uuid4Hex(n) == "uuid" \o ToString(n)

\* Python truthiness of `session_id` (str | None)
Truthy(sid) == sid # None /\ sid # ""

Message(role, content) == [role |-> role, content |-> content]

\* _Session(session_id=new_id): a fresh object with messages = []
NewSession(heap) == Append(heap, <<>>)

(***************************************************************************)
(* SessionStore methods, each as one uninterrupted call                    *)
(***************************************************************************)
Exists(ss, sid) == sid \in DOMAIN ss

\* a get_or_create that ignores the supplied ID when it creates
GetOrCreateRet_NoReuse(ss, n, sid) ==
    IF Truthy(sid) /\ sid \in DOMAIN ss THEN sid ELSE Uuid4Hex(n + 1)

\* the ID get_or_create returns
GetOrCreateRet(ss, n, sid) ==
    IF Truthy(sid) /\ sid \in DOMAIN ss THEN sid
    ELSE IF Truthy(sid) THEN sid ELSE Uuid4Hex(n + 1)

\* whether get_or_create takes the creating path
GetOrCreateCreates(ss, sid) == ~(Truthy(sid) /\ sid \in DOMAIN ss)

GetOrCreateSessions(ss, heap, n, sid) ==
    IF GetOrCreateCreates(ss, sid)
    THEN LET newId == GetOrCreateRet(ss, n, sid)
         IN  [k \in DOMAIN ss \cup {newId} |->
                 IF k = newId THEN Len(heap) + 1 ELSE ss[k]]
    ELSE ss

GetOrCreateObjs(ss, heap, sid) ==
    IF GetOrCreateCreates(ss, sid) THEN NewSession(heap) ELSE heap

GetOrCreateUuid(ss, n, sid) ==
    IF GetOrCreateCreates(ss, sid) /\ ~Truthy(sid) THEN n + 1 ELSE n

\* add_message raises KeyError when _sessions.get(session_id) is None
AddMessageRaises(ss, sid) == sid \notin DOMAIN ss

\* an add_message that inserts at the front of the list
AddMessageObjs_Front(ss, heap, sid, role, content) ==
    IF AddMessageRaises(ss, sid) THEN heap
    ELSE [heap EXCEPT ![ss[sid]] = <<Message(role, content)>> \o @]

AddMessageObjs(ss, heap, sid, role, content) ==
    IF AddMessageRaises(ss, sid) THEN heap
    ELSE [heap EXCEPT ![ss[sid]] = Append(@, Message(role, content))]

\* get_history: a copy of the list, or [] for an unknown ID
GetHistory(ss, heap, sid) ==
    IF sid \notin DOMAIN ss THEN <<>> ELSE heap[ss[sid]]

(***************************************************************************)
(* Sequential driver of the SessionStore                                   *)
(***************************************************************************)
EmptyMap == [k \in {} |-> 0]

NoCall == [op |-> "none", sid |-> None, role |-> "", content |-> "",
           retId |-> None, retHist |-> <<>>, retBool |-> FALSE, raised |-> FALSE,
           preSessions |-> EmptyMap, preObjs |-> <<>>]

\* IDs a caller can pass: anything it can type, None, or an ID issued earlier
CallerIds == UserIds \cup {None} \cup DOMAIN sessions

Threads == {1, 2}

\* a thread outside any SessionStore call
IdleThread == [pc |-> "idle", sid |-> None, role |-> "", content |-> "",
               ref |-> 0, calls |-> 0]

NoThreads == thr = [t \in Threads |-> IdleThread]

\* a request slot no POST /chat has used yet
FreeReq == [pc |-> "free", message |-> "", reqSid |-> None, sid |-> None,
            context |-> "", history |-> <<>>, messages |-> <<>>,
            status |-> 0, answer |-> ""]

NoGet == [sid |-> None, status |-> 0, messages |-> <<>>]

NoChat ==
    /\ ragAvailable = TRUE
    /\ reqs = [r \in 1..MaxReqs |-> FreeReq]
    /\ got = NoGet

\* a raw document: its source and the chunks split_text cuts its text into
RawDoc(source, chunks) == [source |-> source, chunks |-> chunks]

\* contents of the data directory: no documents, a document with an empty
\* text, one document, several documents, a text with two equal chunks
DataSets == {
    <<>>,
    <<RawDoc("parishes.json / X", <<>>)>>,
    <<RawDoc("agencies.json / taj", <<"a1", "a2">>)>>,
    <<RawDoc("agencies.json / taj", <<"a1", "a2">>), RawDoc("fees.json / taj", <<"f1">>)>>,
    <<RawDoc("parishes.json / Kingston", <<"p1", "p1">>)>> }

NoLastIngest == [ret |-> -1, documents |-> <<>>, pre |-> {}]

NoHolidayCall == [op |-> "none"]

\* Python's None where an int is expected, and where a str (a sequence of
\* one-character strings) is expected
NoneInt == -1
NoneStr == <<"<None>">>

\* no toolkit function called, generate_test_trn not entered
NoToolCall == [op |-> "none"]
GenIdle == [pc |-> "idle", drawn |-> <<>>, prefix |-> <<>>, check |-> NoneInt,
            redrawn |-> FALSE, ret |-> NoneStr]
NoTools ==
    /\ fcall = NoToolCall
    /\ gen = GenIdle

NoIngest ==
    /\ hcall = NoHolidayCall
    /\ files = <<>>
    /\ cache = [loaded |-> FALSE, docs |-> <<>>]
    /\ store = [exists |-> FALSE, docs |-> {}]
    /\ idCount = 0
    /\ ingested = FALSE
    /\ lastIngest = NoLastIngest

InitStore ==
    /\ NoTools
    /\ sessions = EmptyMap
    /\ objs = <<>>
    /\ uuidCount = 0
    /\ call = NoCall
    /\ NoThreads
    /\ NoChat
    /\ NoIngest

CallGetOrCreate(sid) ==
    /\ GetOrCreateCreates(sessions, sid) => Len(objs) < MaxObjs
    /\ sessions' = GetOrCreateSessions(sessions, objs, uuidCount, sid)
    /\ objs' = GetOrCreateObjs(sessions, objs, sid)
    /\ uuidCount' = GetOrCreateUuid(sessions, uuidCount, sid)
    /\ call' = [NoCall EXCEPT !.op = "get_or_create", !.sid = sid,
                   !.retId = GetOrCreateRet(sessions, uuidCount, sid),
                   !.preSessions = sessions, !.preObjs = objs]
    /\ UNCHANGED storeFrame

CallAddMessage(sid, role, content) ==
    /\ sid # None
    /\ sid \in DOMAIN sessions => Len(objs[sessions[sid]]) < MaxLen
    /\ objs' = AddMessageObjs(sessions, objs, sid, role, content)
    /\ UNCHANGED <<sessions, uuidCount>>
    /\ call' = [NoCall EXCEPT !.op = "add_message", !.sid = sid,
                   !.role = role, !.content = content,
                   !.raised = AddMessageRaises(sessions, sid),
                   !.preSessions = sessions, !.preObjs = objs]
    /\ UNCHANGED storeFrame

CallGetHistory(sid) ==
    /\ sid # None
    /\ UNCHANGED storeVars
    /\ call' = [NoCall EXCEPT !.op = "get_history", !.sid = sid,
                   !.retHist = GetHistory(sessions, objs, sid),
                   !.preSessions = sessions, !.preObjs = objs]
    /\ UNCHANGED storeFrame

CallExists(sid) ==
    /\ sid # None
    /\ UNCHANGED storeVars
    /\ call' = [NoCall EXCEPT !.op = "exists", !.sid = sid,
                   !.retBool = Exists(sessions, sid),
                   !.preSessions = sessions, !.preObjs = objs]
    /\ UNCHANGED storeFrame

NextStore ==
    \/ \E sid \in CallerIds : CallGetOrCreate(sid)
    \/ \E sid \in CallerIds, role \in Roles, content \in Contents :
          CallAddMessage(sid, role, content)
    \/ \E sid \in CallerIds : CallGetHistory(sid)
    \/ \E sid \in CallerIds : CallExists(sid)

SpecStore == InitStore /\ [][NextStore]_vars

\* the history of session ID k in a (sessions, heap) pair
HistoryOf(ss, heap, k) == heap[ss[k]]

\* C2: after get_or_create(s) returns r, exists(r) holds; a known s is returned
\* as is and the store is unchanged; otherwise a new session with an empty
\* history is created, no other session changes, and a non-empty unknown s
\* becomes the new session's ID.
C2_GetOrCreate ==
    call.op = "get_or_create" =>
        LET s == call.sid
            r == call.retId
            known == s \in DOMAIN call.preSessions
        IN  /\ Exists(sessions, r)
            /\ known =>
                  /\ r = s
                  /\ sessions = call.preSessions
                  /\ objs = call.preObjs
            /\ ~known =>
                  /\ r \notin DOMAIN call.preSessions
                  /\ DOMAIN sessions = DOMAIN call.preSessions \cup {r}
                  /\ HistoryOf(sessions, objs, r) = <<>>
                  /\ \A k \in DOMAIN call.preSessions :
                        /\ sessions[k] = call.preSessions[k]
                        /\ HistoryOf(sessions, objs, k)
                             = HistoryOf(call.preSessions, call.preObjs, k)
                  /\ (s # None /\ s # "") => r = s

C2_Witness ==
    /\ call.op = "get_or_create"
    /\ call.sid = "a"
    /\ "a" \notin DOMAIN call.preSessions
    /\ \E k \in DOMAIN call.preSessions : HistoryOf(sessions, objs, k) # <<>>

\* C3: add_message on an unknown ID raises KeyError and leaves the store
\* unchanged; on a known ID it appends exactly one {role, content} message at
\* the end of that session's history and changes no other session.
C3_AddMessage ==
    call.op = "add_message" =>
        LET s == call.sid
            known == s \in DOMAIN call.preSessions
        IN  /\ call.raised <=> ~known
            /\ sessions = call.preSessions
            /\ ~known => objs = call.preObjs
            /\ known =>
                  /\ HistoryOf(sessions, objs, s)
                       = Append(HistoryOf(call.preSessions, call.preObjs, s),
                                [role |-> call.role, content |-> call.content])
                  /\ \A k \in DOMAIN sessions \ {s} :
                        HistoryOf(sessions, objs, k)
                          = HistoryOf(call.preSessions, call.preObjs, k)
                  /\ Len(objs) = Len(call.preObjs)

C3_Witness ==
    /\ call.op = "add_message"
    /\ ~call.raised
    /\ Len(HistoryOf(sessions, objs, call.sid)) = 2
    /\ \E k \in DOMAIN sessions \ {call.sid} : HistoryOf(sessions, objs, k) # <<>>

C3_WitnessRaise ==
    /\ call.op = "add_message"
    /\ call.raised
    /\ \E k \in DOMAIN sessions : HistoryOf(sessions, objs, k) # <<>>

(***************************************************************************)
(* SessionStore called from several threads.  The store takes no lock, so  *)
(* a thread switch can fall between any two statements of a method; each   *)
(* action below is one statement (one dict or list operation).             *)
(***************************************************************************)
InitThreads ==
    /\ NoTools
    /\ sessions = EmptyMap
    /\ objs = <<>>
    /\ uuidCount = 0
    /\ call = NoCall
    /\ NoThreads
    /\ NoChat
    /\ NoIngest

\* a thread enters get_or_create, add_message or get_history
ThreadCall(t, op, sid, role, content) ==
    /\ thr[t].pc = "idle"
    /\ thr[t].calls < MaxCalls
    /\ op = "goc_check" \/ sid # None
    /\ thr' = [thr EXCEPT ![t] = [pc |-> op, sid |-> sid, role |-> role,
                                  content |-> content, ref |-> 0,
                                  calls |-> @.calls + 1]]
    /\ UNCHANGED storeVars
    /\ UNCHANGED threadFrame

\* get_or_create, line 41-42: the membership test, and the return of a known ID
GocCheck(t) ==
    /\ thr[t].pc = "goc_check"
    /\ thr' = [thr EXCEPT ![t].pc =
                  IF GetOrCreateCreates(sessions, thr[t].sid) THEN "goc_store"
                  ELSE "idle"]
    /\ UNCHANGED storeVars
    /\ UNCHANGED threadFrame

\* get_or_create, line 44-46: new_id, the new _Session and the dict store
GocStore(t) ==
    /\ thr[t].pc = "goc_store"
    /\ Len(objs) < MaxObjs
    /\ LET newId == IF Truthy(thr[t].sid) THEN thr[t].sid
                    ELSE Uuid4Hex(uuidCount + 1)
       IN  /\ sessions' = [k \in DOMAIN sessions \cup {newId} |->
                              IF k = newId THEN Len(objs) + 1 ELSE sessions[k]]
           /\ objs' = NewSession(objs)
           /\ uuidCount' = IF Truthy(thr[t].sid) THEN uuidCount ELSE uuidCount + 1
    /\ thr' = [thr EXCEPT ![t].pc = "idle"]
    /\ UNCHANGED threadFrame

\* add_message, line 61-63: the dict lookup, and KeyError for an unknown ID
AmGet(t) ==
    /\ thr[t].pc = "am_get"
    /\ thr' = [thr EXCEPT ![t] =
                  IF thr[t].sid \in DOMAIN sessions
                  THEN [@ EXCEPT !.pc = "am_append", !.ref = sessions[thr[t].sid]]
                  ELSE [@ EXCEPT !.pc = "idle"]]
    /\ UNCHANGED storeVars
    /\ UNCHANGED threadFrame

\* add_message, line 64: append to the _Session object looked up before
AmAppend(t) ==
    /\ thr[t].pc = "am_append"
    /\ objs' = [objs EXCEPT ![thr[t].ref] =
                   Append(@, Message(thr[t].role, thr[t].content))]
    /\ thr' = [thr EXCEPT ![t].pc = "idle"]
    /\ UNCHANGED <<sessions, uuidCount>>
    /\ UNCHANGED threadFrame

\* get_history, line 71-73: the dict lookup, and [] for an unknown ID
GhGet(t) ==
    /\ thr[t].pc = "gh_get"
    /\ thr' = [thr EXCEPT ![t] =
                  IF thr[t].sid \in DOMAIN sessions
                  THEN [@ EXCEPT !.pc = "gh_copy", !.ref = sessions[thr[t].sid]]
                  ELSE [@ EXCEPT !.pc = "idle"]]
    /\ UNCHANGED storeVars
    /\ UNCHANGED threadFrame

\* get_history, line 74: the copy of the list
GhCopy(t) ==
    /\ thr[t].pc = "gh_copy"
    /\ thr' = [thr EXCEPT ![t].pc = "idle"]
    /\ UNCHANGED storeVars
    /\ UNCHANGED threadFrame

NextThreads ==
    \/ \E t \in Threads, op \in {"goc_check", "am_get", "gh_get"},
           sid \in CallerIds, role \in Roles, content \in Contents :
          ThreadCall(t, op, sid, role, content)
    \/ \E t \in Threads : GocCheck(t)
    \/ \E t \in Threads : GocStore(t)
    \/ \E t \in Threads : AmGet(t)
    \/ \E t \in Threads : AmAppend(t)
    \/ \E t \in Threads : GhGet(t)
    \/ \E t \in Threads : GhCopy(t)

SpecThreads == InitThreads /\ [][NextThreads]_vars

IsPrefix(p, q) == Len(p) <= Len(q) /\ \A i \in 1..Len(p) : p[i] = q[i]

\* C1: SessionStore is thread-safe: under concurrent get_or_create,
\* add_message and get_history calls every session ID keeps the one session
\* object it was given, and the history behind an ID only ever grows at its
\* end (no accepted message is lost or overwritten).
C1_ThreadSafe ==
    [][\A s \in DOMAIN sessions :
          /\ s \in DOMAIN sessions'
          /\ sessions'[s] = sessions[s]
          /\ IsPrefix(HistoryOf(sessions, objs, s), HistoryOf(sessions', objs', s))]_vars

(***************************************************************************)
(* The assistant service: POST /chat and GET /sessions/{session_id}.       *)
(* Handlers are coroutines on one event loop: a handler runs uninterrupted *)
(* from one await to the next.  chat has a single suspension point, the    *)
(* `await llm.ainvoke(messages)` of RAGPipeline.query.                     *)
(***************************************************************************)
Questions == {"q1", "q2"}        \* request.message
Answers == {"r1", "r2"}          \* ai_response.content
Contexts == {"c1", "c2"}         \* context_block built from the similarity search
SYSTEM_PROMPT == "SYSTEM_PROMPT"
HistoryWindow == 10              \* the slice history[-10:]

SystemMessage(content) == [type |-> "system", content |-> content]
HumanMessage(content) == [type |-> "human", content |-> content]
AIMessage(content) == [type |-> "ai", content |-> content]

\* python's seq[-n:]
LastN(seq, n) ==
    IF Len(seq) <= n THEN seq ELSE SubSeq(seq, Len(seq) - n + 1, Len(seq))

\* the f-string of the current turn: retrieved context, then the question
UserMessage(context, question) == <<"Relevant information:", context,
                                    "Citizen's question:", question>>

\* a query that takes the history from its oldest end
HistoryMessages_Oldest(history) ==
    [i \in 1..Len(SubSeq(history, 1, HistoryWindow)) |->
        IF history[i].role = "user" THEN HumanMessage(history[i].content)
        ELSE AIMessage(history[i].content)]

\* query, lines 186-191: the recent history as LangChain messages
HistoryMessages(history) ==
    LET recent == LastN(history, HistoryWindow)
    IN  [i \in 1..Len(recent) |->
            IF recent[i].role = "user" THEN HumanMessage(recent[i].content)
            ELSE AIMessage(recent[i].content)]

\* query, lines 181-198: the message list handed to the LLM
BuildMessages(history, context, question) ==
    <<SystemMessage(SYSTEM_PROMPT)>>
        \o HistoryMessages(history)
        \o <<HumanMessage(UserMessage(context, question))>>

InitChat ==
    /\ NoTools
    /\ sessions = EmptyMap
    /\ objs = <<>>
    /\ uuidCount = 0
    /\ call = NoCall
    /\ NoThreads
    /\ ragAvailable \in BOOLEAN
    /\ reqs = [r \in 1..MaxReqs |-> FreeReq]
    /\ got = NoGet
    /\ NoIngest

\* chat, lines 109-113: the pipeline could not be imported
ChatUnavailable(r, message, sid) ==
    /\ reqs[r].pc = "free"
    /\ ~ragAvailable
    /\ reqs' = [reqs EXCEPT ![r] = [@ EXCEPT !.pc = "done", !.message = message,
                                       !.reqSid = sid, !.status = 503]]
    /\ UNCHANGED <<storeVars, ragAvailable, got>>
    /\ UNCHANGED chatFrame

\* whether POST /chat with this session_id may start within the bounds
ChatWithinBounds(sid) ==
    /\ GetOrCreateCreates(sessions, sid) => Len(objs) < MaxObjs
    /\ Len(GetHistory(sessions, objs, sid)) < 2 * MaxTurns

\* chat line 115 and query lines 167-202: get_or_create, the similarity
\* search, the message list, up to the await of the LLM call
ChatBegin(r, message, sid, context) ==
    /\ reqs[r].pc = "free"
    /\ ragAvailable
    /\ ChatWithinBounds(sid)
    /\ sessions' = GetOrCreateSessions(sessions, objs, uuidCount, sid)
    /\ objs' = GetOrCreateObjs(sessions, objs, sid)
    /\ uuidCount' = GetOrCreateUuid(sessions, uuidCount, sid)
    /\ LET session_id == GetOrCreateRet(sessions, uuidCount, sid)
           history == GetHistory(sessions', objs', session_id)
       IN  reqs' = [reqs EXCEPT ![r] =
                       [@ EXCEPT !.pc = "awaiting", !.message = message,
                                 !.reqSid = sid, !.sid = session_id,
                                 !.context = context, !.history = history,
                                 !.messages = BuildMessages(history, context, message)]]
    /\ UNCHANGED <<ragAvailable, got>>
    /\ UNCHANGED chatFrame

\* chat line 115, query lines 167-168 and chat lines 122-127: the similarity
\* search raises, the handler answers 500
ChatRetrievalRaises(r, message, sid) ==
    /\ reqs[r].pc = "free"
    /\ ragAvailable
    /\ ChatWithinBounds(sid)
    /\ sessions' = GetOrCreateSessions(sessions, objs, uuidCount, sid)
    /\ objs' = GetOrCreateObjs(sessions, objs, sid)
    /\ uuidCount' = GetOrCreateUuid(sessions, uuidCount, sid)
    /\ reqs' = [reqs EXCEPT ![r] =
                   [@ EXCEPT !.pc = "done", !.message = message, !.reqSid = sid,
                             !.sid = GetOrCreateRet(sessions, uuidCount, sid),
                             !.status = 500]]
    /\ UNCHANGED <<ragAvailable, got>>
    /\ UNCHANGED chatFrame

\* a query that persists the answer before the question
PersistTurn_Swapped(ss, heap, sid, question, answer) ==
    AddMessageObjs(ss, AddMessageObjs(ss, heap, sid, "assistant", answer),
                   sid, "user", question)

\* query, lines 210-211: the two add_message calls that persist the turn
PersistTurn(ss, heap, sid, question, answer) ==
    AddMessageObjs(ss, AddMessageObjs(ss, heap, sid, "user", question),
                   sid, "assistant", answer)

\* a query with a suspension point between its two add_message calls: the
\* first step persists the question, a later one the answer
ChatLlmReturns_Suspended(r, answer) ==
    /\ reqs[r].pc = "awaiting"
    /\ IF reqs[r].answer = ""
       THEN /\ objs' = AddMessageObjs(sessions, objs, reqs[r].sid, "user", reqs[r].message)
            /\ reqs' = [reqs EXCEPT ![r] = [@ EXCEPT !.answer = answer]]
       ELSE /\ objs' = AddMessageObjs(sessions, objs, reqs[r].sid, "assistant",
                                      reqs[r].answer)
            /\ reqs' = [reqs EXCEPT ![r] = [@ EXCEPT !.pc = "done", !.status = 200]]
    /\ UNCHANGED <<sessions, uuidCount, ragAvailable, got>>
    /\ UNCHANGED chatFrame

\* query lines 202-213 and chat lines 129-133: the LLM call returns, the turn
\* is persisted and the handler answers 200
ChatLlmReturns(r, answer) ==
    /\ reqs[r].pc = "awaiting"
    /\ objs' = PersistTurn(sessions, objs, reqs[r].sid, reqs[r].message, answer)
    /\ reqs' = [reqs EXCEPT ![r] =
                   [@ EXCEPT !.pc = "done", !.answer = answer,
                             !.status = IF AddMessageRaises(sessions, reqs[r].sid)
                                        THEN 500 ELSE 200]]
    /\ UNCHANGED <<sessions, uuidCount, ragAvailable, got>>
    /\ UNCHANGED chatFrame

\* a query that persists the question before it calls the LLM, so that a
\* failed call leaves the question behind
ChatLlmRaises_QuestionKept(r) ==
    /\ reqs[r].pc = "awaiting"
    /\ objs' = AddMessageObjs(sessions, objs, reqs[r].sid, "user", reqs[r].message)
    /\ reqs' = [reqs EXCEPT ![r] = [@ EXCEPT !.pc = "done", !.status = 500]]
    /\ UNCHANGED <<sessions, uuidCount, ragAvailable, got>>
    /\ UNCHANGED chatFrame

\* query line 202 and chat lines 122-127: the LLM call raises
ChatLlmRaises(r) ==
    /\ reqs[r].pc = "awaiting"
    /\ reqs' = [reqs EXCEPT ![r] = [@ EXCEPT !.pc = "done", !.status = 500]]
    /\ UNCHANGED <<storeVars, ragAvailable, got>>
    /\ UNCHANGED chatFrame

\* the response of get_session, main.py lines 240-256
GetSessionResponse(ss, heap, sid) ==
    IF ~Exists(ss, sid) THEN [sid |-> sid, status |-> 404, messages |-> <<>>]
    ELSE [sid |-> sid, status |-> 200, messages |-> GetHistory(ss, heap, sid)]

GetSession(sid) ==
    /\ sid # None
    /\ got' = GetSessionResponse(sessions, objs, sid)
    /\ UNCHANGED <<storeVars, ragAvailable, reqs>>
    /\ UNCHANGED chatFrame

\* requests are numbered in the order of their arrival
NextReq(r) == reqs[r].pc = "free" /\ \A q \in 1..(r - 1) : reqs[q].pc # "free"

NextChat ==
    \/ \E r \in 1..MaxReqs, m \in Questions, sid \in CallerIds :
          NextReq(r) /\ ChatUnavailable(r, m, sid)
    \/ \E r \in 1..MaxReqs, m \in Questions, sid \in CallerIds, c \in Contexts :
          NextReq(r) /\ ChatBegin(r, m, sid, c)
    \/ \E r \in 1..MaxReqs, m \in Questions, sid \in CallerIds :
          NextReq(r) /\ ChatRetrievalRaises(r, m, sid)
    \/ \E r \in 1..MaxReqs, a \in Answers : ChatLlmReturns(r, a)
    \/ \E r \in 1..MaxReqs : ChatLlmRaises(r)
    \/ \E sid \in CallerIds : GetSession(sid)

SpecChat == InitChat /\ [][NextChat]_vars

\* whether seq holds a directly followed by b
HasAdjacent(seq, a, b) ==
    \E i \in 1..(Len(seq) - 1) : seq[i] = a /\ seq[i + 1] = b

\* what C4 says of every state: a request answered 200 carries the ID of an
\* existing session (the supplied one when one was supplied), and GET
\* /sessions/{id} with that ID returns 200 and a history that holds the
\* request's question and answer, in that order, one after the other
C4_Answered ==
    \A r \in 1..MaxReqs :
        (reqs[r].pc = "done" /\ reqs[r].status = 200) =>
            LET resp == GetSessionResponse(sessions, objs, reqs[r].sid)
            IN  /\ Truthy(reqs[r].reqSid) => reqs[r].sid = reqs[r].reqSid
                /\ resp.status = 200
                /\ HasAdjacent(resp.messages,
                               Message("user", reqs[r].message),
                               Message("assistant", reqs[r].answer))

\* what C4 says of every step: nothing is appended while the request starts
\* and waits for the LLM, and the step that answers 200 appends exactly the
\* user message and then the assistant message to the request's session
C4_Appends ==
    \A r \in 1..MaxReqs :
        /\ (reqs[r].pc = "free" /\ reqs'[r].pc = "awaiting") =>
              GetHistory(sessions', objs', reqs'[r].sid)
                = GetHistory(sessions, objs, reqs'[r].sid)
        /\ (reqs[r].pc = "awaiting" /\ reqs'[r].pc = "done" /\ reqs'[r].status = 200) =>
              GetHistory(sessions', objs', reqs[r].sid)
                = GetHistory(sessions, objs, reqs[r].sid)
                    \o <<Message("user", reqs[r].message),
                         Message("assistant", reqs'[r].answer)>>

\* C4: a successful POST /chat appends exactly two messages to its session,
\* the user's question and then the assistant's answer, only once the LLM has
\* answered; the response carries the session ID, and a later GET
\* /sessions/{id} returns the history with this turn in that order.
C4_ChatTurn == [][C4_Appends]_vars /\ []C4_Answered

\* two overlapping requests of one new session both answered, and the session
\* fetched afterwards
C4_Witness ==
    /\ \A r \in 1..2 : reqs[r].pc = "done" /\ reqs[r].status = 200
    /\ reqs[1].reqSid = None
    /\ reqs[2].sid = reqs[1].sid
    /\ reqs[2].history = <<>>
    /\ got.sid = reqs[1].sid
    /\ got.status = 200
    /\ Len(got.messages) = 4

(***************************************************************************)
(* One client holding one conversation: each POST /chat is sent after the  *)
(* response to the previous one has arrived.                               *)
(***************************************************************************)
InitQuery ==
    /\ NoTools
    /\ sessions = EmptyMap
    /\ objs = <<>>
    /\ uuidCount = 0
    /\ call = NoCall
    /\ NoThreads
    /\ NoChat
    /\ NoIngest

\* the response has been delivered; the next request takes the slot
ChatDelivered(r) ==
    /\ reqs[r].pc = "done"
    /\ reqs' = [reqs EXCEPT ![r] = FreeReq]
    /\ UNCHANGED <<storeVars, ragAvailable, got>>
    /\ UNCHANGED chatFrame

ConversationId == "a"

NextQuery ==
    \/ \E m \in Questions, c \in Contexts : ChatBegin(1, m, ConversationId, c)
    \/ \E m \in Questions : ChatRetrievalRaises(1, m, ConversationId)
    \/ \E a \in Answers : ChatLlmReturns(1, a)
    \/ ChatLlmRaises(1)
    \/ ChatDelivered(1)

SpecQuery == InitQuery /\ [][NextQuery]_vars

\* the last n turns of a history of persisted turns (two messages each)
LastTurns(history, n) == LastN(history, 2 * n)

\* C6: the message list sent to the LLM is the system prompt, then the last 10
\* turns of the session's history (a turn is a user message and its assistant
\* reply) in order and with their roles, then the question with its context.
C6_LastTenTurns ==
    \A r \in 1..MaxReqs :
        reqs[r].pc = "awaiting" =>
            reqs[r].messages =
                <<SystemMessage(SYSTEM_PROMPT)>>
                \o [i \in 1..Len(LastTurns(reqs[r].history, HistoryWindow)) |->
                       LET m == LastTurns(reqs[r].history, HistoryWindow)[i]
                       IN  IF m.role = "user" THEN HumanMessage(m.content)
                           ELSE AIMessage(m.content)]
                \o <<HumanMessage(UserMessage(reqs[r].context, reqs[r].message))>>

(***************************************************************************)
(* Ingestion into the vector store.  The collection is persisted on disk   *)
(* and outlives the process; the data loaders cache what they read for the *)
(* life of the process.                                                    *)
(***************************************************************************)
Document(page_content, source) == [page_content |-> page_content, source |-> source]

RECURSIVE Flatten(_)
Flatten(seqs) ==
    IF seqs = <<>> THEN <<>> ELSE Head(seqs) \o Flatten(Tail(seqs))

\* ingest_documents, lines 114-123: one Document per chunk of every raw document
Documents(raw_docs) ==
    Flatten([i \in 1..Len(raw_docs) |->
                [j \in 1..Len(raw_docs[i].chunks) |->
                    Document(raw_docs[i].chunks[j], raw_docs[i].source)]])

\* build_documents_for_ingestion through the cached loaders
LoadedDocs == IF cache.loaded THEN cache.docs ELSE files

\* store.add_documents: every document is stored under a newly generated ID
AddDocuments(docs, n, documents) ==
    docs \cup {[id |-> n + i, doc |-> documents[i]] : i \in 1..Len(documents)}

\* an ingestion that does not clear the collection first
IngestDocs_NoClear(st, n, documents) ==
    IF documents = <<>> THEN st.docs
    ELSE AddDocuments(st.docs, n, documents)

\* ingest_documents, lines 125-139: the entries of the collection after the call
IngestDocs(st, n, documents) ==
    IF documents = <<>> THEN st.docs
    ELSE LET existing == IF st.exists THEN {e.id : e \in st.docs} ELSE {}
             cleared == {e \in st.docs : e.id \notin existing}
         IN  AddDocuments(cleared, n, documents)

InitIngest ==
    /\ NoTools
    /\ sessions = EmptyMap
    /\ objs = <<>>
    /\ uuidCount = 0
    /\ call = NoCall
    /\ NoThreads
    /\ NoChat
    /\ files \in DataSets
    /\ hcall = NoHolidayCall
    /\ cache = [loaded |-> FALSE, docs |-> <<>>]
    /\ store = [exists |-> FALSE, docs |-> {}]
    /\ idCount = 0
    /\ ingested = FALSE
    /\ lastIngest = NoLastIngest

\* RAGPipeline.ingest_documents
Ingest ==
    LET documents == Documents(LoadedDocs)
    IN  /\ idCount + Len(documents) <= MaxIds
        /\ cache' = [loaded |-> TRUE, docs |-> LoadedDocs]
        /\ store' = IF documents = <<>> THEN store
                    ELSE [exists |-> TRUE, docs |-> IngestDocs(store, idCount, documents)]
        /\ idCount' = idCount + Len(documents)
        /\ ingested' = (ingested \/ documents # <<>>)
        /\ lastIngest' = [ret |-> Len(documents), documents |-> documents,
                          pre |-> store.docs]
        /\ UNCHANGED files
        /\ UNCHANGED ingestFrame

\* the data files are replaced on disk
EditFiles(d) ==
    /\ d # files
    /\ files' = d
    /\ UNCHANGED <<cache, store, idCount, ingested, lastIngest>>
    /\ UNCHANGED ingestFrame

\* the service process is restarted: caches and pipeline state are gone, the
\* persisted collection stays
Restart ==
    /\ cache.loaded
    /\ cache' = [loaded |-> FALSE, docs |-> <<>>]
    /\ ingested' = FALSE
    /\ lastIngest' = NoLastIngest
    /\ UNCHANGED <<files, store, idCount>>
    /\ UNCHANGED ingestFrame

NextIngest ==
    \/ Ingest
    \/ \E d \in DataSets : EditFiles(d)
    \/ Restart

SpecIngest == InitIngest /\ [][NextIngest]_vars

\* the documents a set of collection entries holds, each with its number of copies
Copies(docs, d) == Cardinality({e \in docs : e.doc = d})
CopiesIn(documents, d) == Cardinality({i \in 1..Len(documents) : documents[i] = d})
HoldsExactly(docs, documents) ==
    /\ Cardinality(docs) = Len(documents)
    /\ \A e \in docs : Copies(docs, e.doc) = CopiesIn(documents, e.doc)
    /\ \A i \in 1..Len(documents) :
          Copies(docs, documents[i]) = CopiesIn(documents, documents[i])

IsLeap(y) == (y % 4 = 0) /\ ((y % 100 # 0) \/ (y % 400 = 0))

DaysInMonth(y, m) ==
    IF m = 2 THEN (IF IsLeap(y) THEN 29 ELSE 28)
    ELSE IF m \in {4, 6, 9, 11} THEN 30 ELSE 31

\* days before 1 January of year y
DaysBeforeYear(y) ==
    (y - 1) * 365 + ((y - 1) \div 4) - ((y - 1) \div 100) + ((y - 1) \div 400)

\* days of a common year before the first day of each month
DaysBeforeMonthCommon == <<0, 31, 59, 90, 120, 151, 181, 212, 243, 273, 304, 334>>

DaysBeforeMonth(y, m) ==
    DaysBeforeMonthCommon[m] + (IF m > 2 /\ IsLeap(y) THEN 1 ELSE 0)

\* date(y, m, d)
Date(y, m, d) == DaysBeforeYear(y) + DaysBeforeMonth(y, m) + d

YearOf(n) ==
    CHOOSE y \in (((n - 1) \div 366) + 1)..(((n - 1) \div 365) + 1) :
        DaysBeforeYear(y) < n /\ n <= DaysBeforeYear(y + 1)

MonthOfYearDay(y, doy) ==
    CHOOSE m \in 1..12 :
        DaysBeforeMonth(y, m) < doy /\ doy <= DaysBeforeMonth(y, m) + DaysInMonth(y, m)

MonthOf(n) == MonthOfYearDay(YearOf(n), n - DaysBeforeYear(YearOf(n)))

DayOf(n) == n - DaysBeforeYear(YearOf(n)) - DaysBeforeMonth(YearOf(n), MonthOf(n))

\* date.weekday(): 0 = Monday ... 6 = Sunday
Weekday(n) == (n + 6) % 7

\* the string f"{y}-{m:02}-{d:02}"
Iso(y, m, d) == y * 10000 + m * 100 + d

\* _fmt: date.isoformat()
Fmt(n) ==
    LET y == YearOf(n)
        doy == n - DaysBeforeYear(y)
        m == MonthOfYearDay(y, doy)
    IN  Iso(y, m, doy - DaysBeforeMonth(y, m))

\* _parse: date.fromisoformat()
Parse(s) == Date(s \div 10000, (s \div 100) % 100, s % 100)

\* a computus without the correction m that keeps Easter on or before 25 April
ComputeEasterSunday_NoCorrection(year) ==
    LET a == year % 19
        b == year \div 100
        c == year % 100
        d == b \div 4
        e == b % 4
        f == (b + 8) \div 25
        g == (b - f + 1) \div 3
        h == (19 * a + b - d - g + 15) % 30
        i == c \div 4
        k == c % 4
        l == (32 + 2 * e + 2 * i - h - k) % 7
        month == (h + l + 114) \div 31
        day == ((h + l + 114) % 31) + 1
    IN  Date(year, month, day)

\* _compute_easter_sunday
ComputeEasterSunday(year) ==
    LET a == year % 19
        b == year \div 100
        c == year % 100
        d == b \div 4
        e == b % 4
        f == (b + 8) \div 25
        g == (b - f + 1) \div 3
        h == (19 * a + b - d - g + 15) % 30
        i == c \div 4
        k == c % 4
        l == (32 + 2 * e + 2 * i - h - k) % 7
        m == (a + 11 * h + 22 * l) \div 451
        month == (h + l - 7 * m + 114) \div 31
        day == ((h + l - 7 * m + 114) % 31) + 1
    IN  Date(year, month, day)

\* _nth_weekday
NthWeekday(year, month, weekday, n) ==
    LET first == Date(year, month, 1)
        day == 1 + ((weekday - Weekday(first)) % 7) + (n - 1) * 7
    IN  Date(year, month, day)

NoNote == [kind |-> "None", date |-> 0]
Holiday(date, name, moveable, note) ==
    [date |-> date, name |-> name, moveable |-> moveable, note |-> note]

\* _fixed_holidays
FixedHolidays(year) == <<
    Holiday(Iso(year, 1, 1), "New Year's Day", FALSE, NoNote),
    Holiday(Iso(year, 5, 23), "Labour Day", FALSE, NoNote),
    Holiday(Iso(year, 8, 1), "Emancipation Day", FALSE, NoNote),
    Holiday(Iso(year, 8, 6), "Independence Day", FALSE, NoNote),
    Holiday(Iso(year, 12, 25), "Christmas Day", FALSE, NoNote),
    Holiday(Iso(year, 12, 26), "Boxing Day", FALSE, NoNote) >>

\* _moveable_holidays
MoveableHolidays(year) ==
    LET easter == ComputeEasterSunday(year)
        ash_wednesday == easter - 46
        good_friday == easter - 2
        easter_monday == easter + 1
        heroes_day == NthWeekday(year, 10, 0, 3)
    IN  << Holiday(Fmt(ash_wednesday), "Ash Wednesday", TRUE, NoNote),
           Holiday(Fmt(good_friday), "Good Friday", TRUE, NoNote),
           Holiday(Fmt(easter_monday), "Easter Monday", TRUE, NoNote),
           Holiday(Fmt(heroes_day), "National Heroes Day", TRUE,
                   [kind |-> "Third Monday of October", date |-> 0]) >>

\* sorted(holidays, key=lambda h: h.date), a stable sort
RECURSIVE InsertByDate(_, _)
InsertByDate(sorted, h) ==
    IF sorted = <<>> THEN <<h>>
    ELSE IF sorted[Len(sorted)].date <= h.date THEN Append(sorted, h)
    ELSE Append(InsertByDate(SubSeq(sorted, 1, Len(sorted) - 1), h), sorted[Len(sorted)])

RECURSIVE SortedByDate(_)
SortedByDate(holidays) ==
    IF holidays = <<>> THEN <<>>
    ELSE InsertByDate(SortedByDate(SubSeq(holidays, 1, Len(holidays) - 1)),
                      holidays[Len(holidays)])

\* the loop `while _fmt(substitute) in observed_dates: substitute += 1 day`
RECURSIVE FirstFree(_, _)
FirstFree(substitute, observed_dates) ==
    IF Fmt(substitute) \in observed_dates
    THEN FirstFree(substitute + 1, observed_dates)
    ELSE substitute

\* an iteration that moves a Sunday holiday but leaves a holiday on a date
\* that is already taken
SubstituteOne_NoConflict(h, observed_dates) ==
    LET d == Parse(h.date)
    IN  IF Weekday(d) = 6
        THEN Holiday(Fmt(FirstFree(d + 1, observed_dates)), h.name, h.moveable,
                     [kind |-> "Observed (substitute for)", date |-> h.date])
        ELSE h

\* one iteration of the loop of _apply_sunday_substitution
SubstituteOne(h, observed_dates) ==
    LET d == Parse(h.date)
    IN  IF Weekday(d) = 6
        THEN Holiday(Fmt(FirstFree(d + 1, observed_dates)), h.name, h.moveable,
                     [kind |-> "Observed (substitute for)", date |-> h.date])
        ELSE IF h.date \in observed_dates
        THEN Holiday(Fmt(FirstFree(d + 1, observed_dates)), h.name, h.moveable,
                     [kind |-> "Observed (shifted due to conflict on)", date |-> h.date])
        ELSE h

RECURSIVE SubstituteFrom(_, _, _, _)
SubstituteFrom(sorted_holidays, i, observed_dates, result) ==
    IF i > Len(sorted_holidays) THEN result
    ELSE LET r == SubstituteOne(sorted_holidays[i], observed_dates)
         IN  SubstituteFrom(sorted_holidays, i + 1, observed_dates \cup {r.date},
                            Append(result, r))

\* a substitution rule that only sorts
ApplySundaySubstitution_SortOnly(holidays) == SortedByDate(holidays)

\* _apply_sunday_substitution
ApplySundaySubstitution(holidays) ==
    SubstituteFrom(SortedByDate(holidays), 1, {}, <<>>)

\* a get_holidays without the final sort
GetHolidays_Unsorted(year) ==
    ApplySundaySubstitution(FixedHolidays(year)) \o MoveableHolidays(year)

\* get_holidays
GetHolidays(year) ==
    SortedByDate(ApplySundaySubstitution(FixedHolidays(year)) \o MoveableHolidays(year))

\* get_holidays is a pure function: its lists for the years around
\* YearLo..YearHi are tabulated once, entry k for year YearLo - 2 + k
TableYears == (YearLo - 1)..(YearHi + 1)

RECURSIVE HolidayLists(_)
HolidayLists(year) ==
    IF year < YearLo - 1 THEN <<>>
    ELSE Append(HolidayLists(year - 1), GetHolidays(year))

HolidayTable == HolidayLists(YearHi + 1)

HolidaysOf(year) ==
    IF year \in TableYears THEN HolidayTable[year - YearLo + 2] ELSE GetHolidays(year)

\* is_public_holiday
IsPublicHoliday(d) ==
    LET ds == Fmt(d)
        holidays == HolidaysOf(YearOf(d))
    IN  \E i \in 1..Len(holidays) : holidays[i].date = ds

NoneHoliday == Holiday(0, "None", FALSE, NoNote)

\* the loop of get_next_holiday: the first holiday of the list dated after ds
RECURSIVE FirstAfter(_, _, _)
FirstAfter(holidays, i, ds) ==
    IF i > Len(holidays) THEN NoneHoliday
    ELSE IF holidays[i].date > ds THEN holidays[i]
    ELSE FirstAfter(holidays, i + 1, ds)

\* a get_next_holiday that accepts a holiday on from_date itself
GetNextHoliday_SameDay(from_date) ==
    LET ds == Fmt(from_date)
        found == FirstAfter(HolidaysOf(YearOf(from_date)), 1, ds - 1)
        next_year == HolidaysOf(YearOf(from_date) + 1)
    IN  IF found # NoneHoliday THEN found
        ELSE IF next_year # <<>> THEN next_year[1] ELSE NoneHoliday

\* get_next_holiday
GetNextHoliday(from_date) ==
    LET ds == Fmt(from_date)
        found == FirstAfter(HolidaysOf(YearOf(from_date)), 1, ds)
        next_year == HolidaysOf(YearOf(from_date) + 1)
    IN  IF found # NoneHoliday THEN found
        ELSE IF next_year # <<>> THEN next_year[1] ELSE NoneHoliday

\* is_business_day
IsBusinessDay(d) ==
    IF Weekday(d) >= 5 THEN FALSE ELSE ~IsPublicHoliday(d)

\* the loop of get_working_days from `current`
RECURSIVE WorkingDaysFrom(_, _, _)
WorkingDaysFrom(current, to_date, count) ==
    IF current < to_date
    THEN WorkingDaysFrom(current + 1, to_date,
                         IF IsBusinessDay(current) THEN count + 1 ELSE count)
    ELSE count

\* a get_working_days that counts to_date as well
GetWorkingDays_Inclusive(from_date, to_date) ==
    WorkingDaysFrom(from_date, to_date + 1, 0)

\* get_working_days
GetWorkingDays(from_date, to_date) == WorkingDaysFrom(from_date, to_date, 0)

(***************************************************************************)
(* One call of a holiday function per behaviour, on a year or on dates of  *)
(* YearLo..YearHi                                                          *)
(***************************************************************************)
Years == YearLo..YearHi
Dates == Date(YearLo, 1, 1)..Date(YearHi, 12, 31)

InitHolidays ==
    /\ NoTools
    /\ sessions = EmptyMap
    /\ objs = <<>>
    /\ uuidCount = 0
    /\ call = NoCall
    /\ NoThreads
    /\ NoChat
    /\ NoIngest

CallGetHolidays(year) ==
    /\ hcall = NoHolidayCall
    /\ hcall' = [op |-> "get_holidays", year |-> year, result |-> GetHolidays(year)]
    /\ UNCHANGED holidayFrame

CallGetNextHoliday(d) ==
    /\ hcall = NoHolidayCall
    /\ hcall' = [op |-> "get_next_holiday", from_date |-> d,
                 result |-> GetNextHoliday(d)]
    /\ UNCHANGED holidayFrame

\* get_working_days over a range, over its two parts and over the reversed range
CallGetWorkingDays(a, b, c) ==
    /\ hcall = NoHolidayCall
    /\ hcall' = [op |-> "get_working_days", a |-> a, b |-> b, c |-> c,
                 ac |-> GetWorkingDays(a, c),
                 ab |-> GetWorkingDays(a, b),
                 bc |-> GetWorkingDays(b, c),
                 ca |-> GetWorkingDays(c, a)]
    /\ UNCHANGED holidayFrame

\* get_easter_sunday
GetEasterSunday(year) == Fmt(ComputeEasterSunday(year))

EasterLo == 1600    \* first year given to get_easter_sunday
EasterHi == 2399    \* last year given to get_easter_sunday
EasterYears == EasterLo..EasterHi

CallGetEasterSunday(year) ==
    /\ hcall = NoHolidayCall
    /\ hcall' = [op |-> "get_easter_sunday", year |-> year,
                 result |-> GetEasterSunday(year)]
    /\ UNCHANGED holidayFrame

\* _moveable_holidays, with get_easter_sunday of the same year
CallMoveableHolidays(year) ==
    /\ hcall = NoHolidayCall
    /\ hcall' = [op |-> "_moveable_holidays", year |-> year,
                 easter |-> GetEasterSunday(year),
                 result |-> MoveableHolidays(year)]
    /\ UNCHANGED holidayFrame

\* no holiday function has been called yet
NotCalled == hcall = NoHolidayCall

NextHolidays ==
    \/ NotCalled /\ \E year \in Years : CallGetHolidays(year)
    \/ NotCalled /\ \E d \in Dates : CallGetNextHoliday(d)
    \/ NotCalled /\ \E year \in EasterYears : CallGetEasterSunday(year)
    \/ NotCalled /\ \E year \in EasterYears : CallMoveableHolidays(year)
    \/ NotCalled /\ \E a \in Dates, i \in 0..MaxSpan, j \in 0..MaxSpan :
                       i <= j /\ CallGetWorkingDays(a, a + i, a + j)

SpecHolidays == InitHolidays /\ [][NextHolidays]_vars

Named(hs, name) == hs[CHOOSE i \in 1..Len(hs) : hs[i].name = name]

NearbyHolidays(d) ==
    LET y == YearOf(d)
    IN  {HolidaysOf(y - 1)[i] : i \in 1..Len(HolidaysOf(y - 1))}
          \cup {HolidaysOf(y)[i] : i \in 1..Len(HolidaysOf(y))}
          \cup {HolidaysOf(y + 1)[i] : i \in 1..Len(HolidaysOf(y + 1))}

\* C9: get_next_holiday(d) is never None and returns the holiday with the
\* smallest observed date strictly greater than d: the first such holiday of
\* d's year if there is one, otherwise the first holiday of the next year.
C9_NextHoliday ==
    hcall.op = "get_next_holiday" =>
        LET d == hcall.from_date
            ds == Fmt(d)
            r == hcall.result
            sameYear == HolidaysOf(YearOf(d))
            later == {i \in 1..Len(sameYear) : sameYear[i].date > ds}
        IN  /\ r # NoneHoliday
            /\ r.date > ds
            /\ r \in NearbyHolidays(d)
            /\ \A h \in NearbyHolidays(d) : h.date > ds => r.date <= h.date
            /\ later # {} => r = sameYear[CHOOSE i \in later : \A j \in later : i <= j]
            /\ later = {} => r = HolidaysOf(YearOf(d) + 1)[1]

\* the next holiday asked from a holiday, and from the last holiday of a year
C9_Witness ==
    /\ hcall.op = "get_next_holiday"
    /\ IsPublicHoliday(hcall.from_date)
    /\ YearOf(Parse(hcall.result.date)) = YearOf(hcall.from_date) + 1
    /\ hcall.result.date = Iso(YearOf(hcall.from_date) + 1, 1, 2)

\* the observed holiday dates of a year
ObservedDates(year) == {HolidaysOf(year)[i].date : i \in 1..Len(HolidaysOf(year))}

\* the business days d with from <= d < to: Monday to Friday and not an
\* observed date of get_holidays(d.year)
BusinessDaysIn(from, to) ==
    {d \in from..(to - 1) : Weekday(d) \in 0..4 /\ Fmt(d) \notin ObservedDates(YearOf(d))}

\* C10: get_working_days(from, to) is the number of business days d with
\* from <= d < to; it is 0 when from >= to, and additive over a <= b <= c,
\* also across a year boundary.
C10_WorkingDays ==
    hcall.op = "get_working_days" =>
        /\ hcall.ac = Cardinality(BusinessDaysIn(hcall.a, hcall.c))
        /\ hcall.ab = Cardinality(BusinessDaysIn(hcall.a, hcall.b))
        /\ hcall.bc = Cardinality(BusinessDaysIn(hcall.b, hcall.c))
        /\ hcall.ca = 0
        /\ hcall.a = hcall.b => hcall.ab = 0
        /\ hcall.ac = hcall.ab + hcall.bc

\* a range across a year boundary that holds a weekend, a shifted holiday and
\* business days on both sides of the split
C10_Witness ==
    /\ hcall.op = "get_working_days"
    /\ YearOf(hcall.a) < YearOf(hcall.c)
    /\ Fmt(hcall.b) = Iso(YearOf(hcall.c), 1, 2)
    /\ IsPublicHoliday(hcall.b)
    /\ hcall.ab > 0
    /\ hcall.bc > 0
    /\ hcall.ac < hcall.c - hcall.a - 2

(***************************************************************************)
(* Python strings.  A str is modelled by the sequence of its characters,   *)
(* each a one-character string.                                            *)
(***************************************************************************)
DigitString == <<"0", "1", "2", "3", "4", "5", "6", "7", "8", "9">>
DigitChars == {DigitString[i] : i \in 1..10}

\* int(c) of one decimal digit
DigitValue(c) == (CHOOSE i \in 1..10 : DigitString[i] = c) - 1

\* the characters str.strip() removes
Whitespace == {" ", "\n", "\t"}

RECURSIVE LStrip(_)
LStrip(s) ==
    IF s # <<>> /\ s[1] \in Whitespace THEN LStrip(Tail(s)) ELSE s

RECURSIVE RStrip(_)
RStrip(s) ==
    IF s # <<>> /\ s[Len(s)] \in Whitespace THEN RStrip(SubSeq(s, 1, Len(s) - 1)) ELSE s

\* s.strip()
Strip(s) == RStrip(LStrip(s))

IsNotDash(c) == c # "-"

\* s.replace("-", "")
RemoveDashes(s) == SelectSeq(s, IsNotDash)

\* s[i:j] for 0 <= i <= j
Slice(s, i, j) == SubSeq(s, i + 1, IF j < Len(s) THEN j ELSE Len(s))

\* re.compile(r"^\d{n}$").match(s): n digits, then the end of the string or
\* a newline that ends the string
MatchDigits(s, n) ==
    /\ Len(s) >= n
    /\ \A i \in 1..n : s[i] \in DigitChars
    /\ \/ Len(s) = n
       \/ Len(s) = n + 1 /\ s[n + 1] = "\n"

(***************************************************************************)
(* jamaica_trn                                                             *)
(***************************************************************************)
\* weights of which one is a multiple of 11
WEIGHTS_Eleven == <<3, 7, 11, 3, 7, 1, 3, 7>>

\* _WEIGHTS
WEIGHTS == <<3, 7, 1, 3, 7, 1, 3, 7>>

\* a raised ValueError, where a str would be returned
ValueError == <<"<ValueError>">>

\* unformat_trn
UnformatTrn(trn) == RemoveDashes(Strip(trn))

\* format_trn
FormatTrn(trn) ==
    LET raw == UnformatTrn(trn)
    IN  IF ~MatchDigits(raw, 9) THEN ValueError
        ELSE Slice(raw, 0, 3) \o <<"-">> \o Slice(raw, 3, 6) \o <<"-">> \o Slice(raw, 6, 9)

\* sum(int(d) * w for d, w in zip(digits, _WEIGHTS)), from pair i on
RECURSIVE WeightedSum(_, _)
WeightedSum(digits, i) ==
    IF i > Len(digits) \/ i > Len(WEIGHTS) THEN 0
    ELSE DigitValue(digits[i]) * WEIGHTS[i] + WeightedSum(digits, i + 1)

\* a get_trn_check_digit that returns 10
GetTrnCheckDigit_Ten(digits) ==
    IF ~MatchDigits(digits, 8) THEN NoneInt
    ELSE LET remainder == WeightedSum(digits, 1) % 11
         IN  IF remainder = 0 THEN 0 ELSE 11 - remainder

\* get_trn_check_digit
GetTrnCheckDigit(digits) ==
    IF ~MatchDigits(digits, 8) THEN NoneInt
    ELSE LET total == WeightedSum(digits, 1)
             remainder == total % 11
             check == IF remainder = 0 THEN 0 ELSE 11 - remainder
         IN  IF check = 10 THEN NoneInt ELSE check

\* is_valid_trn
IsValidTrn(trn) ==
    LET raw == UnformatTrn(trn)
    IN  IF ~MatchDigits(raw, 9) THEN FALSE
        ELSE LET prefix == Slice(raw, 0, 8)
                 provided == DigitValue(raw[9])
                 expected == GetTrnCheckDigit(prefix)
             IN  expected # NoneInt /\ provided = expected

(***************************************************************************)
(* One call of a jamaica_trn function per behaviour                        *)
(***************************************************************************)
\* the digits the numbers given to the functions are written with
TrnDigits == {"0", "1", "9"}

\* the strings of n characters of S
Strings(S, n) == [1..n -> S]

TrnPrefixes == Strings(TrnDigits, 8)
TrnNumbers == Strings(TrnDigits, 9)

\* arguments of get_trn_check_digit made from 8 digits: the digits, one digit
\* fewer or more, followed by a newline or a blank, a letter among them
CheckDigitInputs(p) ==
    { p, Slice(p, 0, 7), p \o <<"0">>, p \o <<"\n">>, p \o <<" ">>, <<"x">> \o Tail(p) }

\* the NNN-NNN-NNN form of a 9-digit string
Dashed(r) == Slice(r, 0, 3) \o <<"-">> \o Slice(r, 3, 6) \o <<"-">> \o Slice(r, 6, 9)

\* arguments of is_valid_trn and format_trn made from 9 digits: raw, dashed,
\* padded with blanks, followed by a newline, by a newline and a dash, one
\* digit fewer or more, a letter or a blank among the digits
TrnInputs(r) ==
    { r, Dashed(r), <<" ">> \o Dashed(r) \o <<" ", "\t">>, r \o <<"\n">>,
      r \o <<"\n", "-">>, Slice(r, 0, 8), r \o <<"0">>, <<"x">> \o Tail(r),
      Slice(r, 0, 4) \o <<" ">> \o Slice(r, 4, 9) }

InitTrn ==
    /\ NoTools
    /\ sessions = EmptyMap
    /\ objs = <<>>
    /\ uuidCount = 0
    /\ call = NoCall
    /\ NoThreads
    /\ NoChat
    /\ NoIngest

CallGetTrnCheckDigit(digits) ==
    /\ fcall' = [op |-> "get_trn_check_digit", digits |-> digits,
                 result |-> GetTrnCheckDigit(digits)]
    /\ UNCHANGED toolFrame

CallIsValidTrn(trn) ==
    /\ fcall' = [op |-> "is_valid_trn", trn |-> trn, result |-> IsValidTrn(trn)]
    /\ UNCHANGED toolFrame

\* is_valid_trn on the raw and on the dashed form of one number
CallIsValidTrnForms(r) ==
    /\ fcall' = [op |-> "is_valid_trn forms", raw |-> IsValidTrn(r),
                 formatted |-> IsValidTrn(Dashed(r))]
    /\ UNCHANGED toolFrame

\* format_trn, and unformat_trn and format_trn applied to its argument and result
CallFormatTrn(trn) ==
    /\ fcall' = [op |-> "format_trn", trn |-> trn, result |-> FormatTrn(trn),
                 unformatted |-> UnformatTrn(FormatTrn(trn)),
                 of_unformatted |-> FormatTrn(UnformatTrn(trn)),
                 twice |-> FormatTrn(FormatTrn(trn))]
    /\ UNCHANGED toolFrame

\* no toolkit function has been called yet
NoToolCalled == fcall = NoToolCall

NextTrn ==
    \/ NoToolCalled /\ \E p \in TrnPrefixes : \E d \in CheckDigitInputs(p) :
                          CallGetTrnCheckDigit(d)
    \/ NoToolCalled /\ \E r \in TrnNumbers : \E t \in TrnInputs(r) : CallIsValidTrn(t)
    \/ NoToolCalled /\ \E r \in TrnNumbers : CallIsValidTrnForms(r)
    \/ NoToolCalled /\ \E r \in TrnNumbers : \E t \in TrnInputs(r) : CallFormatTrn(t)

SpecTrn == InitTrn /\ [][NextTrn]_vars

\* the string is exactly n decimal digits
ExactlyDigits(s, n) == Len(s) = n /\ \A i \in 1..n : s[i] \in DigitChars

\* C11: for 8 decimal digits get_trn_check_digit takes r = (3 d1 + 7 d2 + d3 +
\* 3 d4 + 7 d5 + d6 + 3 d7 + 7 d8) mod 11 and returns 0 when r = 0, 11 - r when
\* that is at most 9 and None when r = 1; it returns None for every input that
\* is not exactly 8 digits; every result other than None is in 0..9.
C11_CheckDigit ==
    fcall.op = "get_trn_check_digit" =>
        LET d == fcall.digits
            v(i) == DigitValue(d[i])
            r == (3 * v(1) + 7 * v(2) + v(3) + 3 * v(4) + 7 * v(5) + v(6)
                    + 3 * v(7) + 7 * v(8)) % 11
        IN  /\ ExactlyDigits(d, 8) =>
                /\ r = 0 => fcall.result = 0
                /\ (r # 0 /\ 11 - r <= 9) => fcall.result = 11 - r
                /\ r = 1 => fcall.result = NoneInt
            /\ ~ExactlyDigits(d, 8) => fcall.result = NoneInt
            /\ fcall.result # NoneInt => fcall.result \in 0..9

\* C12: is_valid_trn(t) is true exactly when t, trimmed and without dashes, is
\* exactly 9 digits whose 9th digit is get_trn_check_digit of the first 8 (no
\* completion is valid when that is None); the raw and the NNN-NNN-NNN form
\* of one number get the same verdict.
C12_IsValid ==
    /\ fcall.op = "is_valid_trn" =>
          LET u == RemoveDashes(Strip(fcall.trn))
          IN  fcall.result
                = (/\ ExactlyDigits(u, 9)
                   /\ GetTrnCheckDigit(Slice(u, 0, 8)) = DigitValue(u[9]))
    /\ fcall.op = "is_valid_trn forms" => fcall.raw = fcall.formatted

\* C13: format_trn(t) is the NNN-NNN-NNN form of the digits when t, trimmed
\* and without dashes, is exactly 9 digits, and raises ValueError otherwise; on
\* such inputs unformat_trn(format_trn(t)) is the raw 9 digits,
\* format_trn(unformat_trn(t)) = format_trn(t) and format_trn is idempotent.
C13_Format ==
    fcall.op = "format_trn" =>
        LET u == RemoveDashes(Strip(fcall.trn))
        IN  /\ ExactlyDigits(u, 9) =>
                /\ fcall.result = <<u[1], u[2], u[3], "-", u[4], u[5], u[6], "-",
                                    u[7], u[8], u[9]>>
                /\ fcall.unformatted = u
                /\ fcall.of_unformatted = fcall.result
                /\ fcall.twice = fcall.result
            /\ ~ExactlyDigits(u, 9) => fcall.result = ValueError

(***************************************************************************)
(* generate_test_trn: one call, its eight random.randint(0, 9) draws per    *)
(* iteration taken one at a time from GenDigits                            *)
(***************************************************************************)
\* the outcomes of random.randint(0, 9) taken
GenDigits == {"0", "1"}

\* str(n) of an int n >= 0
RECURSIVE IntToStr(_)
IntToStr(n) ==
    IF n < 10 THEN <<DigitString[n + 1]>>
    ELSE IntToStr(n \div 10) \o <<DigitString[(n % 10) + 1]>>

\* the {check} of an f-string
FormatCheck(check) ==
    IF check = NoneInt THEN <<"N", "o", "n", "e">> ELSE IntToStr(check)

InitGen ==
    /\ NoTools
    /\ sessions = EmptyMap
    /\ objs = <<>>
    /\ uuidCount = 0
    /\ call = NoCall
    /\ NoThreads
    /\ NoChat
    /\ NoIngest

\* lines 129-130: check = None, prefix = ""
GenEnter ==
    /\ gen.pc = "idle"
    /\ gen' = [gen EXCEPT !.pc = "loop"]
    /\ UNCHANGED genFrame

\* one of the first seven random.randint(0, 9) of an iteration
GenDigit(d) ==
    /\ gen.pc = "loop"
    /\ Len(gen.drawn) < 7
    /\ gen' = [gen EXCEPT !.drawn = Append(@, d)]
    /\ UNCHANGED genFrame

\* the generator after the eighth draw d: the prefix is joined, its check
\* digit computed, the loop condition tested, the result returned
GenAfterLast(d) ==
    LET prefix == Append(gen.drawn, d)
        check == GetTrnCheckDigit(prefix)
    IN  IF check = NoneInt
        THEN [gen EXCEPT !.drawn = <<>>, !.prefix = prefix, !.check = check,
                         !.redrawn = TRUE]
        ELSE [gen EXCEPT !.pc = "done", !.drawn = <<>>, !.prefix = prefix,
                         !.check = check, !.ret = prefix \o FormatCheck(check)]

\* the eighth draw of an iteration whose prefix has no check digit
GenRedraw(d) ==
    /\ gen.pc = "loop"
    /\ Len(gen.drawn) = 7
    /\ GenAfterLast(d).pc = "loop"
    /\ gen' = GenAfterLast(d)
    /\ UNCHANGED genFrame

\* the eighth draw of an iteration whose prefix has a check digit
GenReturn(d) ==
    /\ gen.pc = "loop"
    /\ Len(gen.drawn) = 7
    /\ GenAfterLast(d).pc = "done"
    /\ gen' = GenAfterLast(d)
    /\ UNCHANGED genFrame

GenReturns == \E d \in GenDigits : GenReturn(d)

NextGen ==
    \/ GenEnter
    \/ \E d \in GenDigits : GenDigit(d)
    \/ \E d \in GenDigits : GenRedraw(d)
    \/ GenReturns

\* the random source keeps drawing, and does not forever avoid the prefixes
\* that have a check digit
SpecGen == InitGen /\ [][NextGen]_vars /\ WF_vars(NextGen) /\ SF_vars(GenReturns)

\* C14: every value generate_test_trn returns is exactly 9 digits and valid
\* for is_valid_trn; an iteration returns exactly when the prefix it drew has
\* a check digit in 0..9 and otherwise draws again; the call terminates under
\* a random source that eventually yields such a prefix.
C14_Generate ==
    /\ [](gen.pc = "done" => ExactlyDigits(gen.ret, 9) /\ IsValidTrn(gen.ret))
    /\ [][(gen.pc = "loop" /\ Len(gen.drawn) = 7) =>
            (gen'.pc = "done") = (GetTrnCheckDigit(gen'.prefix) \in 0..9)]_vars
    /\ [](gen.pc = "done" => gen.ret = gen.prefix \o <<DigitString[gen.check + 1]>>)
    /\ (gen.pc = "loop" ~> gen.pc = "done")

\* a call that returned after drawing a prefix without a check digit first
C14_Witness ==
    /\ gen.pc = "done"
    /\ gen.redrawn
    /\ Len(gen.ret) = 9
    /\ IsValidTrn(gen.ret)

(***************************************************************************)
(* jamaica_phone                                                           *)
(***************************************************************************)
VALID_AREA_CODES == {<<"8", "7", "6">>, <<"6", "5", "8">>}

IsDigitChar(c) == c \in DigitChars

\* _NON_DIGIT_RE.sub("", s)
DigitsOf(s) == SelectSeq(s, IsDigitChar)

\* s.startswith(prefix)
StartsWith(s, prefix) == Len(s) >= Len(prefix) /\ SubSeq(s, 1, Len(prefix)) = prefix

\* _strip_to_digits
StripToDigits(phone) ==
    LET trimmed == Strip(phone)
    IN  [digits |-> DigitsOf(trimmed), has_plus |-> StartsWith(trimmed, <<"+">>)]

\* lines 75-84 of _extract_ten_digits: the ten digits, or None
TenOf(digits, has_plus) ==
    IF has_plus
    THEN (IF Len(digits) = 11 /\ StartsWith(digits, <<"1">>) THEN Tail(digits) ELSE NoneStr)
    ELSE IF Len(digits) = 10 THEN digits
    ELSE IF Len(digits) = 11 /\ StartsWith(digits, <<"1">>) THEN Tail(digits)
    ELSE NoneStr

\* an _extract_ten_digits without the NXX validation
ExtractTenDigits_NoExchange(phone) ==
    LET sd == StripToDigits(phone)
        ten == TenOf(sd.digits, sd.has_plus)
    IN  IF ten = NoneStr THEN NoneStr
        ELSE IF Slice(ten, 0, 3) \notin VALID_AREA_CODES THEN NoneStr
        ELSE ten

\* _extract_ten_digits
ExtractTenDigits(phone) ==
    LET sd == StripToDigits(phone)
        ten == TenOf(sd.digits, sd.has_plus)
    IN  IF ten = NoneStr THEN NoneStr
        ELSE IF Slice(ten, 0, 3) \notin VALID_AREA_CODES THEN NoneStr
        ELSE IF DigitValue(ten[4]) < 2 \/ DigitValue(ten[4]) > 9 THEN NoneStr
        ELSE ten

\* is_valid_jamaican_number
IsValidJamaicanNumber(phone) == ExtractTenDigits(phone) # NoneStr

ParsedPhone(country_code, area_code, local_number, is_valid) ==
    [country_code |-> country_code, area_code |-> area_code,
     local_number |-> local_number, is_valid |-> is_valid]

\* parse_phone returning None
NoneParsed == ParsedPhone(NoneStr, NoneStr, NoneStr, FALSE)

\* parse_phone
ParsePhone(phone) ==
    LET ten == ExtractTenDigits(phone)
    IN  IF ten = NoneStr THEN NoneParsed
        ELSE ParsedPhone(<<"1">>, Slice(ten, 0, 3), Slice(ten, 3, 10), TRUE)

\* format_local
FormatLocal(phone) ==
    LET parsed == ParsePhone(phone)
        ln == parsed.local_number
    IN  IF parsed = NoneParsed THEN ValueError
        ELSE Slice(ln, 0, 3) \o <<"-">> \o Slice(ln, 3, 7)

\* format_national
FormatNational(phone) ==
    LET parsed == ParsePhone(phone)
        ln == parsed.local_number
    IN  IF parsed = NoneParsed THEN ValueError
        ELSE <<"(">> \o parsed.area_code \o <<")", " ">> \o Slice(ln, 0, 3) \o <<"-">>
                \o Slice(ln, 3, 7)

\* a format_e164 without the plus sign
FormatE164_NoPlus(phone) ==
    LET parsed == ParsePhone(phone)
    IN  IF parsed = NoneParsed THEN ValueError
        ELSE parsed.country_code \o parsed.area_code \o parsed.local_number

\* format_e164
FormatE164(phone) ==
    LET parsed == ParsePhone(phone)
    IN  IF parsed = NoneParsed THEN ValueError
        ELSE <<"+">> \o parsed.country_code \o parsed.area_code \o parsed.local_number

\* format_international
FormatInternational(phone) ==
    LET parsed == ParsePhone(phone)
        ln == parsed.local_number
    IN  IF parsed = NoneParsed THEN ValueError
        ELSE <<"+">> \o parsed.country_code \o <<" ", "(">> \o parsed.area_code
                \o <<")", " ">> \o Slice(ln, 0, 3) \o <<"-">> \o Slice(ln, 3, 7)

(***************************************************************************)
(* One call of a jamaica_phone function per behaviour                      *)
(***************************************************************************)
\* ten-digit numbers: a Jamaican or a foreign area code, a local number that
\* starts with 0, 1, 2 or 9
PhoneAreas == {<<"8", "7", "6">>, <<"6", "5", "8">>, <<"8", "7", "5">>}
PhoneNumbers ==
    { a \o <<x>> \o <<"5", "5">> \o t :
        a \in PhoneAreas, x \in {"0", "1", "2", "9"}, t \in Strings({"0", "7"}, 4) }

\* the ways a ten-digit number is written in an argument
PhoneInputs(t) ==
    LET a == Slice(t, 0, 3)
        x == Slice(t, 3, 6)
        l == Slice(t, 6, 10)
    IN  { t,
          <<"1">> \o t,
          <<"+", "1">> \o t,
          <<"+">> \o t,
          <<" ", "+">> \o t,
          <<" ", "+", "1">> \o t \o <<" ">>,
          <<"\t">> \o t \o <<"\n">>,
          <<"(">> \o a \o <<")", " ">> \o x \o <<"-">> \o l,
          <<"+", "1", " ", "(">> \o a \o <<")", " ">> \o x \o <<"-">> \o l,
          a \o <<"-">> \o x \o <<"-">> \o l,
          <<"1", "-">> \o a \o <<"-">> \o x \o <<"-">> \o l,
          <<"t", "e", "l", ":">> \o t,
          <<"2">> \o t,
          <<"+", "2">> \o t,
          Slice(t, 0, 9),
          <<"+", "1">> \o t \o <<"5">>,
          x \o <<"-">> \o l }

InitPhone ==
    /\ NoTools
    /\ sessions = EmptyMap
    /\ objs = <<>>
    /\ uuidCount = 0
    /\ call = NoCall
    /\ NoThreads
    /\ NoChat
    /\ NoIngest

\* is_valid_jamaican_number and parse_phone on one argument
CallParsePhone(phone) ==
    /\ fcall' = [op |-> "parse_phone", phone |-> phone,
                 valid |-> IsValidJamaicanNumber(phone),
                 parsed |-> ParsePhone(phone)]
    /\ UNCHANGED toolFrame

\* the record of a call of a formatter: its result, and the formatter, the
\* validator and the parser applied to that result
FormatCall(op, phone, result, again) ==
    [op |-> op, phone |-> phone, valid |-> IsValidJamaicanNumber(phone),
     parsed |-> ParsePhone(phone), result |-> result, again |-> again,
     result_valid |-> IF result = ValueError THEN FALSE ELSE IsValidJamaicanNumber(result),
     result_parsed |-> IF result = ValueError THEN NoneParsed ELSE ParsePhone(result)]

CallFormatLocal(phone) ==
    /\ fcall' = FormatCall("format_local", phone, FormatLocal(phone), ValueError)
    /\ UNCHANGED toolFrame

CallFormatNational(phone) ==
    /\ fcall' = FormatCall("format_national", phone, FormatNational(phone),
                           IF FormatNational(phone) = ValueError THEN ValueError
                           ELSE FormatNational(FormatNational(phone)))
    /\ UNCHANGED toolFrame

CallFormatE164(phone) ==
    /\ fcall' = FormatCall("format_e164", phone, FormatE164(phone),
                           IF FormatE164(phone) = ValueError THEN ValueError
                           ELSE FormatE164(FormatE164(phone)))
    /\ UNCHANGED toolFrame

CallFormatInternational(phone) ==
    /\ fcall' = FormatCall("format_international", phone, FormatInternational(phone),
                           IF FormatInternational(phone) = ValueError THEN ValueError
                           ELSE FormatInternational(FormatInternational(phone)))
    /\ UNCHANGED toolFrame

NextPhone ==
    \/ NoToolCalled /\ \E t \in PhoneNumbers : \E p \in PhoneInputs(t) : CallParsePhone(p)
    \/ NoToolCalled /\ \E t \in PhoneNumbers : \E p \in PhoneInputs(t) : CallFormatLocal(p)
    \/ NoToolCalled /\ \E t \in PhoneNumbers : \E p \in PhoneInputs(t) :
                          CallFormatNational(p)
    \/ NoToolCalled /\ \E t \in PhoneNumbers : \E p \in PhoneInputs(t) : CallFormatE164(p)
    \/ NoToolCalled /\ \E t \in PhoneNumbers : \E p \in PhoneInputs(t) :
                          CallFormatInternational(p)

SpecPhone == InitPhone /\ [][NextPhone]_vars

\* the verdict the rule gives on an argument of which `plus` says whether it
\* counts as starting with '+': the digits left after removing every other
\* character are 10, or 11 starting with 1 (with a '+', only the latter), and
\* the ten-digit number has area code 876 or 658 and a first local digit 2..9
RuleTen(phone, plus) ==
    LET digits == SelectSeq(phone, IsDigitChar)
    IN  IF Len(digits) = 11 /\ digits[1] = "1" THEN SubSeq(digits, 2, 11)
        ELSE IF Len(digits) = 10 /\ ~plus THEN digits
        ELSE <<>>

RuleValid(phone, plus) ==
    LET ten == RuleTen(phone, plus)
    IN  /\ ten # <<>>
        /\ SubSeq(ten, 1, 3) \in {<<"8", "7", "6">>, <<"6", "5", "8">>}
        /\ ten[4] \in {"2", "3", "4", "5", "6", "7", "8", "9"}

\* the claim about is_valid_jamaican_number and parse_phone, given the rule
PhoneRule(plus) ==
    fcall.op = "parse_phone" =>
        LET ten == RuleTen(fcall.phone, plus)
        IN  /\ fcall.valid = RuleValid(fcall.phone, plus)
            /\ (fcall.parsed = NoneParsed) = ~fcall.valid
            /\ fcall.valid =>
                  fcall.parsed = [country_code |-> <<"1">>, area_code |-> SubSeq(ten, 1, 3),
                                  local_number |-> SubSeq(ten, 4, 10), is_valid |-> TRUE]

\* C15 as stated: is_valid_jamaican_number(p) is true exactly when p, without
\* its non-digit characters, is 10 digits, or 11 digits starting with 1 (an
\* input that starts with '+' must be the 11-digit form), with area code 876
\* or 658 and a first local digit in 2..9; parse_phone returns None exactly
\* when it is false, and otherwise country code 1, the area code and the
\* 7-digit local number.
C15_ValidParse ==
    PhoneRule(fcall.phone # <<>> /\ fcall.phone[1] = "+")

\* C15 amended: the same, where an input counts as starting with '+' when its
\* first character after trimming surrounding whitespace is '+'.
C15_ValidParseTrimmed ==
    PhoneRule(LET trimmed == Strip(fcall.phone)
              IN  trimmed # <<>> /\ trimmed[1] = "+")

\* a valid number written with blanks around the '+1' form, and parsed
C15_Witness ==
    /\ fcall.op = "parse_phone"
    /\ fcall.phone[1] = " "
    /\ fcall.phone[2] = "+"
    /\ fcall.valid
    /\ fcall.parsed.area_code = <<"6", "5", "8">>
    /\ Len(fcall.parsed.local_number) = 7

\* the formatters whose output is a full number
FullFormatters == {"format_national", "format_e164", "format_international"}

\* C16: the four formatters raise ValueError exactly on the inputs
\* is_valid_jamaican_number rejects; on a valid input format_e164 returns '+1'
\* followed by the 10 digits, and the outputs of format_e164, format_national
\* and format_international are valid inputs with the same area code and local
\* number, which the same formatter returns unchanged.
C16_Formatters ==
    fcall.op \in FullFormatters \cup {"format_local"} =>
        /\ (fcall.result = ValueError) = ~fcall.valid
        /\ (fcall.valid /\ fcall.op = "format_e164") =>
              LET d == SelectSeq(fcall.phone, IsDigitChar)
              IN  fcall.result = <<"+", "1">> \o SubSeq(d, Len(d) - 9, Len(d))
        /\ (fcall.valid /\ fcall.op \in FullFormatters) =>
              /\ fcall.result_valid
              /\ fcall.result_parsed.area_code = fcall.parsed.area_code
              /\ fcall.result_parsed.local_number = fcall.parsed.local_number
              /\ fcall.again = fcall.result

\* format_e164 of a number written in the national style
C16_Witness ==
    /\ fcall.op = "format_e164"
    /\ fcall.phone[1] = "("
    /\ fcall.valid
    /\ Len(fcall.result) = 12
    /\ fcall.result_parsed = fcall.parsed

(***************************************************************************)
(* jamaica_addresses: strings and patterns                                 *)
(***************************************************************************)
UpperLetters == <<"A", "B", "C", "D", "E", "F", "G", "H", "I", "J", "K", "L", "M",
                  "N", "O", "P", "Q", "R", "S", "T", "U", "V", "W", "X", "Y", "Z">>
LowerLetters == <<"a", "b", "c", "d", "e", "f", "g", "h", "i", "j", "k", "l", "m",
                  "n", "o", "p", "q", "r", "s", "t", "u", "v", "w", "x", "y", "z">>

IsUpper(c) == \E i \in 1..26 : UpperLetters[i] = c
IsLetter(c) == \E i \in 1..26 : UpperLetters[i] = c \/ LowerLetters[i] = c

\* the pattern character class \w
IsWordChar(c) == IsLetter(c) \/ c \in DigitChars \/ c = "_"

\* the pattern character class \s
IsSpace(c) == c \in Whitespace

LowerChar(c) ==
    IF IsUpper(c) THEN LowerLetters[CHOOSE i \in 1..26 : UpperLetters[i] = c] ELSE c

\* s.lower()
Lower(s) == [i \in 1..Len(s) |-> LowerChar(s[i])]

\* s.split(","), from the text after the last comma seen
RECURSIVE SplitFrom(_, _, _)
SplitFrom(s, i, current) ==
    IF i > Len(s) THEN <<current>>
    ELSE IF s[i] = "," THEN <<current>> \o SplitFrom(s, i + 1, <<>>)
    ELSE SplitFrom(s, i + 1, Append(current, s[i]))

\* [x.strip() for x in s.split(",")]
Segments(s) ==
    LET parts == SplitFrom(s, 1, <<>>)
    IN  [k \in 1..Len(parts) |-> Strip(parts[k])]

\* ", ".join(parts)
RECURSIVE Join(_)
Join(parts) ==
    IF parts = <<>> THEN <<>>
    ELSE IF Len(parts) = 1 THEN parts[1]
    ELSE parts[1] \o <<",", " ">> \o Join(Tail(parts))

\* the text at position i of s is `word` (given in lower case), in any letter case
HasAt(s, i, word) ==
    /\ i + Len(word) - 1 <= Len(s)
    /\ Lower(SubSeq(s, i, i + Len(word) - 1)) = word

\* the first position from i on that holds no whitespace (Len(s) + 1 if none)
RECURSIVE SkipSpaces(_, _)
SkipSpaces(s, i) ==
    IF i <= Len(s) /\ IsSpace(s[i]) THEN SkipSpaces(s, i + 1) ELSE i

\* the first position from i on that holds no digit
RECURSIVE SkipDigits(_, _)
SkipDigits(s, i) ==
    IF i <= Len(s) /\ s[i] \in DigitChars THEN SkipDigits(s, i + 1) ELSE i

\* the text from position i to the end of its line: what (.+) matches there
RECURSIVE RestOfLine(_, _)
RestOfLine(s, i) ==
    IF i > Len(s) \/ s[i] = "\n" THEN <<>>
    ELSE <<s[i]>> \o RestOfLine(s, i + 1)

\* the pattern position \b before a word character at i
BoundaryBefore(s, i) == i = 1 \/ ~IsWordChar(s[i - 1])

\* the pattern position \b after a word character at i - 1
BoundaryAt(s, i) == i > Len(s) \/ ~IsWordChar(s[i])

\* int(digits)
RECURSIVE ParseInt(_)
ParseInt(digits) ==
    IF digits = <<>> THEN 0
    ELSE 10 * ParseInt(SubSeq(digits, 1, Len(digits) - 1)) + DigitValue(digits[Len(digits)])

PARISH_NAMES == <<
    <<"K", "i", "n", "g", "s", "t", "o", "n">>,
    <<"S", "t", ".", " ", "A", "n", "d", "r", "e", "w">>,
    <<"S", "t", ".", " ", "C", "a", "t", "h", "e", "r", "i", "n", "e">>,
    <<"C", "l", "a", "r", "e", "n", "d", "o", "n">>,
    <<"M", "a", "n", "c", "h", "e", "s", "t", "e", "r">>,
    <<"S", "t", ".", " ", "E", "l", "i", "z", "a", "b", "e", "t", "h">>,
    <<"W", "e", "s", "t", "m", "o", "r", "e", "l", "a", "n", "d">>,
    <<"H", "a", "n", "o", "v", "e", "r">>,
    <<"S", "t", ".", " ", "J", "a", "m", "e", "s">>,
    <<"T", "r", "e", "l", "a", "w", "n", "y">>,
    <<"S", "t", ".", " ", "A", "n", "n">>,
    <<"S", "t", ".", " ", "M", "a", "r", "y">>,
    <<"P", "o", "r", "t", "l", "a", "n", "d">>,
    <<"S", "t", ".", " ", "T", "h", "o", "m", "a", "s">> >>

\* PARISH_ALIASES, in the order of the dict: << key, value >>
PARISH_ALIASES == <<
    << <<"k", "g", "n">>,
       <<"K", "i", "n", "g", "s", "t", "o", "n">> >>,
    << <<"k", "n", "g">>,
       <<"K", "i", "n", "g", "s", "t", "o", "n">> >>,
    << <<"k", "i", "n", "g", "s", "t", "o", "n">>,
       <<"K", "i", "n", "g", "s", "t", "o", "n">> >>,
    << <<"s", "t", " ", "a", "n", "d", "r", "e", "w">>,
       <<"S", "t", ".", " ", "A", "n", "d", "r", "e", "w">> >>,
    << <<"s", "a", "i", "n", "t", " ", "a", "n", "d", "r", "e", "w">>,
       <<"S", "t", ".", " ", "A", "n", "d", "r", "e", "w">> >>,
    << <<"s", "t", ".", " ", "a", "n", "d", "r", "e", "w">>,
       <<"S", "t", ".", " ", "A", "n", "d", "r", "e", "w">> >>,
    << <<"s", "t", " ", "c", "a", "t", "h", "e", "r", "i", "n", "e">>,
       <<"S", "t", ".", " ", "C", "a", "t", "h", "e", "r", "i", "n", "e">> >>,
    << <<"s", "a", "i", "n", "t", " ", "c", "a", "t", "h", "e", "r", "i", "n", "e">>,
       <<"S", "t", ".", " ", "C", "a", "t", "h", "e", "r", "i", "n", "e">> >>,
    << <<"s", "t", ".", " ", "c", "a", "t", "h", "e", "r", "i", "n", "e">>,
       <<"S", "t", ".", " ", "C", "a", "t", "h", "e", "r", "i", "n", "e">> >>,
    << <<"c", "l", "a", "r", "e", "n", "d", "o", "n">>,
       <<"C", "l", "a", "r", "e", "n", "d", "o", "n">> >>,
    << <<"m", "a", "n", "c", "h", "e", "s", "t", "e", "r">>,
       <<"M", "a", "n", "c", "h", "e", "s", "t", "e", "r">> >>,
    << <<"s", "t", " ", "e", "l", "i", "z", "a", "b", "e", "t", "h">>,
       <<"S", "t", ".", " ", "E", "l", "i", "z", "a", "b", "e", "t", "h">> >>,
    << <<"s", "a", "i", "n", "t", " ", "e", "l", "i", "z", "a", "b", "e", "t", "h">>,
       <<"S", "t", ".", " ", "E", "l", "i", "z", "a", "b", "e", "t", "h">> >>,
    << <<"s", "t", ".", " ", "e", "l", "i", "z", "a", "b", "e", "t", "h">>,
       <<"S", "t", ".", " ", "E", "l", "i", "z", "a", "b", "e", "t", "h">> >>,
    << <<"w", "e", "s", "t", "m", "o", "r", "e", "l", "a", "n", "d">>,
       <<"W", "e", "s", "t", "m", "o", "r", "e", "l", "a", "n", "d">> >>,
    << <<"h", "a", "n", "o", "v", "e", "r">>,
       <<"H", "a", "n", "o", "v", "e", "r">> >>,
    << <<"s", "t", " ", "j", "a", "m", "e", "s">>,
       <<"S", "t", ".", " ", "J", "a", "m", "e", "s">> >>,
    << <<"s", "a", "i", "n", "t", " ", "j", "a", "m", "e", "s">>,
       <<"S", "t", ".", " ", "J", "a", "m", "e", "s">> >>,
    << <<"s", "t", ".", " ", "j", "a", "m", "e", "s">>,
       <<"S", "t", ".", " ", "J", "a", "m", "e", "s">> >>,
    << <<"m", "o", "b", "a", "y">>,
       <<"S", "t", ".", " ", "J", "a", "m", "e", "s">> >>,
    << <<"m", "o", " ", "b", "a", "y">>,
       <<"S", "t", ".", " ", "J", "a", "m", "e", "s">> >>,
    << <<"t", "r", "e", "l", "a", "w", "n", "y">>,
       <<"T", "r", "e", "l", "a", "w", "n", "y">> >>,
    << <<"s", "t", " ", "a", "n", "n">>,
       <<"S", "t", ".", " ", "A", "n", "n">> >>,
    << <<"s", "a", "i", "n", "t", " ", "a", "n", "n">>,
       <<"S", "t", ".", " ", "A", "n", "n">> >>,
    << <<"s", "t", ".", " ", "a", "n", "n">>,
       <<"S", "t", ".", " ", "A", "n", "n">> >>,
    << <<"o", "c", "h", "i">>,
       <<"S", "t", ".", " ", "A", "n", "n">> >>,
    << <<"s", "t", " ", "m", "a", "r", "y">>,
       <<"S", "t", ".", " ", "M", "a", "r", "y">> >>,
    << <<"s", "a", "i", "n", "t", " ", "m", "a", "r", "y">>,
       <<"S", "t", ".", " ", "M", "a", "r", "y">> >>,
    << <<"s", "t", ".", " ", "m", "a", "r", "y">>,
       <<"S", "t", ".", " ", "M", "a", "r", "y">> >>,
    << <<"p", "o", "r", "t", "l", "a", "n", "d">>,
       <<"P", "o", "r", "t", "l", "a", "n", "d">> >>,
    << <<"s", "t", " ", "t", "h", "o", "m", "a", "s">>,
       <<"S", "t", ".", " ", "T", "h", "o", "m", "a", "s">> >>,
    << <<"s", "a", "i", "n", "t", " ", "t", "h", "o", "m", "a", "s">>,
       <<"S", "t", ".", " ", "T", "h", "o", "m", "a", "s">> >>,
    << <<"s", "t", ".", " ", "t", "h", "o", "m", "a", "s">>,
       <<"S", "t", ".", " ", "T", "h", "o", "m", "a", "s">> >>,
    << <<"s", "a", "v">>,
       <<"W", "e", "s", "t", "m", "o", "r", "e", "l", "a", "n", "d">> >>,
    << <<"s", "a", "v", "a", "n", "n", "a", "-", "l", "a", "-", "m", "a", "r">>,
       <<"W", "e", "s", "t", "m", "o", "r", "e", "l", "a", "n", "d">> >> >>

\* _KINGSTON_SECTOR_RE matched at position i: \bKingston\s*(\d{1,2})\b
KingstonAt(s, i) ==
    /\ BoundaryBefore(s, i)
    /\ HasAt(s, i, <<"k", "i", "n", "g", "s", "t", "o", "n">>)
    /\ LET j == SkipSpaces(s, i + 8)
           k == SkipDigits(s, j)
       IN  k - j \in {1, 2} /\ BoundaryAt(s, k)

\* _KINGSTON_SECTOR_RE.search(s): group(1) of the first match, or None
KingstonSearch(s) ==
    IF \E i \in 1..Len(s) : KingstonAt(s, i)
    THEN LET i == CHOOSE x \in 1..Len(s) :
                      KingstonAt(s, x) /\ \A y \in 1..(x - 1) : ~KingstonAt(s, y)
             j == SkipSpaces(s, i + 8)
         IN  SubSeq(s, j, SkipDigits(s, j) - 1)
    ELSE NoneStr

\* the alternatives of _UNIT_RE, in lower case
UNIT_WORDS == {
    <<"l", "o", "t">>,
    <<"s", "h", "o", "p">>,
    <<"s", "u", "i", "t", "e">>,
    <<"a", "p", "t">>,
    <<"a", "p", "a", "r", "t", "m", "e", "n", "t">>,
    <<"u", "n", "i", "t">>,
    <<"f", "l", "o", "o", "r">>,
    <<"f", "l", "a", "t">> }

\* _UNIT_RE.match(seg): ^(Lot|Shop|Suite|Apt|Apartment|Unit|Floor|Flat)\s+[\w-]+
UnitMatch(seg) ==
    \E w \in UNIT_WORDS :
        /\ HasAt(seg, 1, w)
        /\ Len(seg) > Len(w)
        /\ IsSpace(seg[Len(w) + 1])
        /\ LET j == SkipSpaces(seg, Len(w) + 1)
           IN  j <= Len(seg) /\ (IsWordChar(seg[j]) \/ seg[j] = "-")

\* _DISTRICT_RE.match(seg): group(1) of ^District\s+of\s+(.+), or None
DistrictMatch(seg) ==
    LET a == SkipSpaces(seg, 9)
        b == SkipSpaces(seg, a + 2)
    IN  IF /\ HasAt(seg, 1, <<"d", "i", "s", "t", "r", "i", "c", "t">>)
           /\ a > 9
           /\ HasAt(seg, a, <<"o", "f">>)
           /\ b > a + 2
           /\ RestOfLine(seg, b) # <<>>
        THEN RestOfLine(seg, b)
        ELSE NoneStr

\* _STREET_NUMBER_RE.match(seg): groups 1 and 2 of ^(\d+[A-Za-z]?)\s+(.+)
NoStreet == [number |-> NoneStr, name |-> NoneStr]
StreetMatch(seg) ==
    LET d == SkipDigits(seg, 1)
        e == IF d <= Len(seg) /\ IsLetter(seg[d]) THEN d + 1 ELSE d
        f == SkipSpaces(seg, e)
    IN  IF d > 1 /\ f > e /\ RestOfLine(seg, f) # <<>>
        THEN [number |-> SubSeq(seg, 1, e - 1), name |-> RestOfLine(seg, f)]
        ELSE NoStreet

\* re.sub(r"\b(Saint|St)\s+", "St. ", text, flags=re.IGNORECASE), from position i
RECURSIVE SaintFrom(_, _)
SaintFrom(text, i) ==
    IF i > Len(text) THEN <<>>
    ELSE LET w == IF HasAt(text, i, <<"s", "a", "i", "n", "t">>)
                        /\ SkipSpaces(text, i + 5) > i + 5
                  THEN 5
                  ELSE IF HasAt(text, i, <<"s", "t">>) /\ SkipSpaces(text, i + 2) > i + 2
                  THEN 2 ELSE 0
         IN  IF BoundaryBefore(text, i) /\ w > 0
             THEN <<"S", "t", ".", " ">> \o SaintFrom(text, SkipSpaces(text, i + w))
             ELSE <<text[i]>> \o SaintFrom(text, i + 1)

\* _normalize_saint_prefix
NormalizeSaintPrefix(text) == SaintFrom(text, 1)

\* PARISH_ALIASES.get(key)
AliasOf(key) ==
    IF \E k \in 1..Len(PARISH_ALIASES) : PARISH_ALIASES[k][1] = key
    THEN PARISH_ALIASES[CHOOSE k \in 1..Len(PARISH_ALIASES) : PARISH_ALIASES[k][1] = key][2]
    ELSE NoneStr

\* a _resolve_parish that returns the text as it was written
ResolveParish_AsWritten(text) ==
    LET trimmed == Strip(text)
        lower == Lower(NormalizeSaintPrefix(trimmed))
    IN  IF \E k \in 1..Len(PARISH_NAMES) : Lower(PARISH_NAMES[k]) = lower
        THEN trimmed
        ELSE AliasOf(Lower(trimmed))

\* _resolve_parish
ResolveParish(text) ==
    LET trimmed == Strip(text)
        normalized == NormalizeSaintPrefix(trimmed)
        lower == Lower(normalized)
    IN  IF \E k \in 1..Len(PARISH_NAMES) : Lower(PARISH_NAMES[k]) = lower
        THEN PARISH_NAMES[CHOOSE k \in 1..Len(PARISH_NAMES) : Lower(PARISH_NAMES[k]) = lower]
        ELSE AliasOf(Lower(trimmed))

(***************************************************************************)
(* jamaica_addresses: the public functions                                 *)
(***************************************************************************)
KINGSTON_NAME == <<"K", "i", "n", "g", "s", "t", "o", "n">>

ParsedAddress(raw, street_number, street_name, unit, community, district, parish, sector) ==
    [raw |-> raw, street_number |-> street_number, street_name |-> street_name,
     unit |-> unit, community |-> community, district |-> district,
     parish |-> parish, kingston_sector |-> sector]

\* ParsedAddress(raw=raw)
EmptyParsed(raw) ==
    ParsedAddress(raw, NoneStr, NoneStr, NoneStr, NoneStr, NoneStr, NoneStr, NoneInt)

\* the truth value of an Optional[str]
IsSet(field) == field # NoneStr /\ field # <<>>

\* lines 202-215 of parse_address: the parish and sector a segment fixes (the
\* parish is None when it fixes none)
ParishAt(seg) ==
    LET k_match == KingstonSearch(seg)
        sector == ParseInt(k_match)
        resolved == ResolveParish(seg)
    IN  IF k_match # NoneStr
        THEN [parish |-> KINGSTON_NAME,
              sector |-> IF 1 <= sector /\ sector <= 20 THEN sector ELSE NoneInt]
        ELSE IF IsSet(resolved) THEN [parish |-> resolved, sector |-> NoneInt]
        ELSE [parish |-> NoneStr, sector |-> NoneInt]

\* a pass 1 that takes the first parish segment from the front
ParishScan_Forward(segments, i) ==
    LET hits == {k \in 1..i : ParishAt(segments[k]).parish # NoneStr}
        first == CHOOSE k \in hits : \A j \in hits : k <= j
    IN  IF hits = {} THEN [idx |-> 0, parish |-> NoneStr, sector |-> NoneInt]
        ELSE [idx |-> first, parish |-> ParishAt(segments[first]).parish,
              sector |-> ParishAt(segments[first]).sector]

\* pass 1 of parse_address from segment i down: the 1-based index of the
\* parish segment (0 if none), the parish and the sector
RECURSIVE ParishScan(_, _)
ParishScan(segments, i) ==
    IF i < 1 THEN [idx |-> 0, parish |-> NoneStr, sector |-> NoneInt]
    ELSE IF ParishAt(segments[i]).parish # NoneStr
    THEN [idx |-> i, parish |-> ParishAt(segments[i]).parish,
          sector |-> ParishAt(segments[i]).sector]
    ELSE ParishScan(segments, i - 1)

\* lines 242-252 of parse_address: what the segments left over become
Leftover(result, remaining) ==
    LET n == Len(remaining)
    IN  IF n = 0 THEN result
        ELSE IF n = 1 THEN [result EXCEPT !.community = remaining[1]]
        ELSE [result EXCEPT
                !.street_name = IF IsSet(result.street_name) THEN @
                                ELSE Join(SubSeq(remaining, 1, n - 1)),
                !.community = remaining[n]]

\* lines 234-240: the street number and name on the first segment left
StreetStep(result, remaining) ==
    LET n_match == IF remaining = <<>> THEN NoStreet ELSE StreetMatch(remaining[1])
    IN  IF n_match # NoStreet
        THEN Leftover([result EXCEPT !.street_number = n_match.number,
                                     !.street_name = Strip(n_match.name)],
                      Tail(remaining))
        ELSE Leftover(result, remaining)

\* lines 230-232: the unit prefix on the first segment left
UnitStep(result, remaining) ==
    IF remaining # <<>> /\ UnitMatch(remaining[1])
    THEN StreetStep([result EXCEPT !.unit = remaining[1]], Tail(remaining))
    ELSE StreetStep(result, remaining)

\* lines 224-228: the district pattern on the first segment
DistrictStep(result, remaining) ==
    LET d_match == DistrictMatch(remaining[1])
    IN  IF d_match # NoneStr
        THEN UnitStep([result EXCEPT !.district = Strip(d_match)], Tail(remaining))
        ELSE UnitStep(result, remaining)

\* parse_address
ParseAddress(raw) ==
    LET trimmed == Strip(raw)
        segments == Segments(trimmed)
        found == ParishScan(segments, Len(segments))
        result == [EmptyParsed(raw) EXCEPT !.parish = found.parish,
                                           !.kingston_sector = found.sector]
        remaining == IF found.idx >= 1 THEN SubSeq(segments, 1, found.idx - 1)
                     ELSE segments
    IN  IF trimmed = <<>> THEN EmptyParsed(raw)
        ELSE IF remaining = <<>> THEN result
        ELSE DistrictStep(result, remaining)

\* a get_kingston_sector that returns whatever number follows 'Kingston'
GetKingstonSector_AnyNumber(address) ==
    LET match == KingstonSearch(address)
    IN  IF match = NoneStr THEN NoneInt ELSE ParseInt(match)

\* get_kingston_sector
GetKingstonSector(address) ==
    LET match == KingstonSearch(address)
        sector == ParseInt(match)
    IN  IF match = NoneStr THEN NoneInt
        ELSE IF sector < 1 \/ sector > 20 THEN NoneInt
        ELSE sector

\* sub in s
Contains(s, sub) == \E i \in 1..(Len(s) - Len(sub) + 1) : SubSeq(s, i, i + Len(sub) - 1) = sub

\* re.compile(r"\b" + re.escape(alias) + r"\b", re.IGNORECASE).search(s)
WordSearch(s, alias) ==
    \E i \in 1..Len(s) :
        BoundaryBefore(s, i) /\ HasAt(s, i, alias) /\ BoundaryAt(s, i + Len(alias))

\* the first index of a sequence that satisfies a test, 0 if none
FirstIndex(n, Test(_)) ==
    IF \E k \in 1..n : Test(k)
    THEN CHOOSE k \in 1..n : Test(k) /\ \A j \in 1..(k - 1) : ~Test(j)
    ELSE 0

\* extract_parish
ExtractParish(address) ==
    LET trimmed == Strip(address)
        segments == Segments(trimmed)
        Resolves(k) == IsSet(ResolveParish(segments[Len(segments) + 1 - k]))
        seg == FirstIndex(Len(segments), Resolves)
        lower_addr == Lower(trimmed)
        HasName(k) == Contains(lower_addr, Lower(PARISH_NAMES[k]))
        name == FirstIndex(Len(PARISH_NAMES), HasName)
        Inline(k) == Len(PARISH_ALIASES[k][1]) <= 5 /\ WordSearch(trimmed, PARISH_ALIASES[k][1])
        alias == FirstIndex(Len(PARISH_ALIASES), Inline)
    IN  IF trimmed = <<>> THEN NoneStr
        ELSE IF KingstonSearch(trimmed) # NoneStr THEN KINGSTON_NAME
        ELSE IF seg > 0 THEN ResolveParish(segments[Len(segments) + 1 - seg])
        ELSE IF name > 0 THEN PARISH_NAMES[name]
        ELSE IF alias > 0 THEN PARISH_ALIASES[alias][2]
        ELSE NoneStr

\* a normalize_address that lists the district before the community
NormalizeAddress_DistrictFirst(parsed) ==
    LET street == IF IsSet(parsed.street_number) /\ IsSet(parsed.street_name)
                  THEN <<parsed.street_number \o <<" ">> \o parsed.street_name>>
                  ELSE IF IsSet(parsed.street_name) THEN <<parsed.street_name>>
                  ELSE <<>>
    IN  Join((IF IsSet(parsed.unit) THEN <<parsed.unit>> ELSE <<>>)
             \o street
             \o (IF IsSet(parsed.district)
                 THEN <<<<"D", "i", "s", "t", "r", "i", "c", "t", " ", "o", "f",
                     " ">> \o parsed.district>> ELSE <<>>)
             \o (IF IsSet(parsed.community) THEN <<parsed.community>> ELSE <<>>)
             \o (IF ~IsSet(parsed.parish) THEN <<>>
                 ELSE IF parsed.kingston_sector # NoneInt /\ parsed.kingston_sector # 0
                 THEN <<parsed.parish \o <<" ">> \o IntToStr(parsed.kingston_sector)>>
                 ELSE <<parsed.parish>>))

\* normalize_address
NormalizeAddress(parsed) ==
    LET unit == IF IsSet(parsed.unit) THEN <<parsed.unit>> ELSE <<>>
        street == IF IsSet(parsed.street_number) /\ IsSet(parsed.street_name)
                  THEN <<parsed.street_number \o <<" ">> \o parsed.street_name>>
                  ELSE IF IsSet(parsed.street_name) THEN <<parsed.street_name>>
                  ELSE <<>>
        community == IF IsSet(parsed.community) THEN <<parsed.community>> ELSE <<>>
        district == IF IsSet(parsed.district)
                    THEN <<<<"D", "i", "s", "t", "r", "i", "c", "t", " ", "o", "f",
                        " ">> \o parsed.district>>
                    ELSE <<>>
        parish == IF ~IsSet(parsed.parish) THEN <<>>
                  ELSE IF parsed.kingston_sector # NoneInt /\ parsed.kingston_sector # 0
                  THEN <<parsed.parish \o <<" ">> \o IntToStr(parsed.kingston_sector)>>
                  ELSE <<parsed.parish>>
    IN  Join(unit \o street \o community \o district \o parish)

\* format_address
FormatAddress(parsed) == NormalizeAddress(parsed)

(***************************************************************************)
(* One call of a jamaica_addresses function per behaviour                  *)
(***************************************************************************)
MaxSegs == 3        \* comma-separated segments of an address given to the functions
MaxNumber == 120    \* largest number written after 'Kingston' in an argument

\* the segments addresses are made of: Kingston with a sector, a parish
\* spelling, a district, a unit, a place name that starts like a unit, a
\* street, a community, an empty segment
SegmentTexts == {
    <<"K", "i", "n", "g", "s", "t", "o", "n", " ", "1", "0">>,
    <<"s", "a", "i", "n", "t", " ", " ", "a", "n", "d", "r", "e", "w">>,
    <<"D", "i", "s", "t", "r", "i", "c", "t", " ", "o", "f", " ", "A", "c", "c", "o", "m",
        "p", "o", "n", "g">>,
    <<"L", "o", "t", " ", "5">>,
    <<"U", "n", "i", "t", "y", " ", "H", "a", "l", "l">>,
    <<"2", "0", " ", "B", "a", "r", "b", "i", "c", "a", "n", " ", "R", "o", "a", "d">>,
    <<"M", "a", "y", " ", "P", "e", "n">>,
    <<>> }

\* segments met less often: Kingston with a number that is no sector, a parish
\* alias, a unit word alone, a unit word with no word after it
RareSegments == {
    <<"N", "e", "w", " ", "K", "i", "n", "g", "s", "t", "o", "n", " ", "2", "5">>,
    <<"m", "o", "b", "a", "y">>,
    <<"F", "l", "a", "t">>,
    <<"L", "o", "t", " ", "#", "5">> }

\* the addresses with a rare segment first, alone or between two segments
RareAddresses ==
    RareSegments
      \cup { r \o <<",", " ">> \o y : r \in RareSegments, y \in SegmentTexts }
      \cup { x \o <<",", " ">> \o r \o <<",", " ">> \o y :
               r \in RareSegments, x \in SegmentTexts, y \in SegmentTexts }

\* the addresses of n segments
RECURSIVE AddressesOf(_)
AddressesOf(n) ==
    IF n = 1 THEN SegmentTexts
    ELSE { a \o <<",", " ">> \o seg : a \in AddressesOf(n - 1), seg \in SegmentTexts }

\* 'Kingston <n>', also without the blank, in upper case, and in a longer text
SectorTexts ==
    UNION { { KINGSTON_NAME \o <<" ">> \o IntToStr(n),
              Lower(KINGSTON_NAME) \o IntToStr(n),
              <<"5", " ", "X", ",", " ">> \o KINGSTON_NAME \o <<" ", " ">> \o IntToStr(n)
                 \o <<",", " ">> \o KINGSTON_NAME \o <<" ", "7">>,
              KINGSTON_NAME \o <<" ", "0">> \o IntToStr(n) } : n \in 0..MaxNumber }

SaintParishes == {
    <<"A", "n", "d", "r", "e", "w">>,
    <<"C", "a", "t", "h", "e", "r", "i", "n", "e">>,
    <<"E", "l", "i", "z", "a", "b", "e", "t", "h">>,
    <<"J", "a", "m", "e", "s">>,
    <<"A", "n", "n">>,
    <<"M", "a", "r", "y">>,
    <<"T", "h", "o", "m", "a", "s">> }

UpperChar(c) ==
    IF \E i \in 1..26 : LowerLetters[i] = c
    THEN UpperLetters[CHOOSE i \in 1..26 : LowerLetters[i] = c] ELSE c

\* s.upper()
Upper(s) == [i \in 1..Len(s) |-> UpperChar(s[i])]

\* the spellings 'Saint X', 'St X' and 'St. X' of a parish, as written, in
\* upper and in lower case
SaintSpellings(x) ==
    LET forms == { <<"S", "a", "i", "n", "t", " ">> \o x, <<"S", "t", " ">> \o x,
                   <<"S", "t", ".", " ">> \o x }
    IN  forms \cup {Upper(f) : f \in forms} \cup {Lower(f) : f \in forms}

AliasKeys == {PARISH_ALIASES[k][1] : k \in 1..Len(PARISH_ALIASES)}

\* the arguments of _resolve_parish: parish spellings, alias keys, segments
ParishTexts ==
    UNION {SaintSpellings(x) : x \in SaintParishes} \cup AliasKeys \cup SegmentTexts
      \cup {Upper(k) : k \in AliasKeys}
      \cup {<<" ">> \o PARISH_NAMES[k] \o <<" ">> : k \in 1..Len(PARISH_NAMES)}

\* the arguments of parse_address, extract_parish and get_kingston_sector
AddressInputs ==
    UNION {AddressesOf(n) : n \in 1..MaxSegs}
      \cup RareAddresses
      \cup SectorTexts
      \cup UNION {SaintSpellings(x) : x \in SaintParishes}
      \cup { <<"3", " ", "A", ",", " ">> \o f :
                f \in UNION {SaintSpellings(x) : x \in SaintParishes} }
      \cup AliasKeys
      \cup { <<>>, <<" ", "\t">>, <<" ", "L", "o", "t", " ", "5", ",", "M", "a", "y", " ">> }

\* the values of the fields of the ParsedAddress objects given to
\* normalize_address and format_address
UnitValues == {NoneStr, <<>>, <<"L", "o", "t", " ", "5">>}
NumberValues == {NoneStr, <<"2", "0">>}
StreetValues == {NoneStr, <<>>, <<"B", "a", "r", "b", "i", "c", "a", "n", " ", "R", "o", "a", "d">>}
CommunityValues == {NoneStr, <<>>, <<"M", "a", "y", " ", "P", "e", "n">>}
DistrictValues == {NoneStr, <<"A", "c", "c", "o", "m", "p", "o", "n", "g">>}
ParishValues == {NoneStr, KINGSTON_NAME, <<"S", "t", ".", " ", "J", "a", "m", "e", "s">>}
SectorValues == {NoneInt, 1, 20}

ParsedAddresses ==
    { ParsedAddress(<<"r">>, n, s, u, c, d, p, k) :
        n \in NumberValues, s \in StreetValues, u \in UnitValues, c \in CommunityValues,
        d \in DistrictValues, p \in ParishValues, k \in SectorValues }

InitAddr ==
    /\ NoTools
    /\ sessions = EmptyMap
    /\ objs = <<>>
    /\ uuidCount = 0
    /\ call = NoCall
    /\ NoThreads
    /\ NoChat
    /\ NoIngest

CallParseAddress(raw) ==
    /\ fcall' = [op |-> "parse_address", address |-> raw, result |-> ParseAddress(raw)]
    /\ UNCHANGED toolFrame

CallGetKingstonSector(address) ==
    /\ fcall' = [op |-> "get_kingston_sector", address |-> address,
                 result |-> GetKingstonSector(address)]
    /\ UNCHANGED toolFrame

CallExtractParish(address) ==
    /\ fcall' = [op |-> "extract_parish", address |-> address,
                 result |-> ExtractParish(address)]
    /\ UNCHANGED toolFrame

CallResolveParish(text) ==
    /\ fcall' = [op |-> "_resolve_parish", address |-> text, result |-> ResolveParish(text)]
    /\ UNCHANGED toolFrame

CallNormalizeAddress(parsed) ==
    /\ fcall' = [op |-> "normalize_address", parsed |-> parsed,
                 result |-> NormalizeAddress(parsed)]
    /\ UNCHANGED toolFrame

CallFormatAddress(parsed) ==
    /\ fcall' = [op |-> "format_address", parsed |-> parsed,
                 result |-> FormatAddress(parsed),
                 normalized |-> NormalizeAddress(parsed)]
    /\ UNCHANGED toolFrame

NextAddr ==
    \/ NoToolCalled /\ \E a \in AddressInputs : CallParseAddress(a)
    \/ NoToolCalled /\ \E a \in AddressInputs : CallGetKingstonSector(a)
    \/ NoToolCalled /\ \E a \in AddressInputs : CallExtractParish(a)
    \/ NoToolCalled /\ \E t \in ParishTexts : CallResolveParish(t)
    \/ NoToolCalled /\ \E p \in ParsedAddresses : CallNormalizeAddress(p)
    \/ NoToolCalled /\ \E p \in ParsedAddresses : CallFormatAddress(p)

SpecAddr == InitAddr /\ [][NextAddr]_vars

(***************************************************************************)
(* parse_address, stated as a rule on its argument and its result          *)
(***************************************************************************)
\* the segment starts with one of the unit words, in any letter case
StartsWithUnitWord(seg) == \E w \in UNIT_WORDS : HasAt(seg, 1, w)

\* the segment starts with one of the unit words, then whitespace, then a
\* letter, a digit, an underscore or a hyphen
StartsWithUnitToken(seg) ==
    \E w \in UNIT_WORDS : \E j \in (Len(w) + 2)..Len(seg) :
        /\ HasAt(seg, 1, w)
        /\ \A k \in (Len(w) + 1)..(j - 1) : IsSpace(seg[k])
        /\ IsWordChar(seg[j]) \/ seg[j] = "-"

\* the segment contains 'Kingston <1-2 digits>' or resolves to a parish
FixesParish(seg) == KingstonSearch(seg) # NoneStr \/ IsSet(ResolveParish(seg))

\* the result r is what the rule gives for the argument raw, with IsUnit
\* telling which segments count as a unit
ParseRule(raw, r, IsUnit(_)) ==
    LET segs == Segments(Strip(raw))
        fixing == {i \in 1..Len(segs) : FixesParish(segs[i])}
        idx == IF fixing = {} THEN 0
               ELSE CHOOSE i \in fixing : \A j \in fixing : j <= i
        before == IF idx = 0 THEN segs ELSE SubSeq(segs, 1, idx - 1)
        isDistrict == before # <<>> /\ DistrictMatch(before[1]) # NoneStr
        afterDistrict == IF isDistrict THEN Tail(before) ELSE before
        isUnit == afterDistrict # <<>> /\ IsUnit(afterDistrict[1])
        afterUnit == IF isUnit THEN Tail(afterDistrict) ELSE afterDistrict
        isStreet == afterUnit # <<>> /\ StreetMatch(afterUnit[1]) # NoStreet
        left == IF isStreet THEN Tail(afterUnit) ELSE afterUnit
        n == Len(left)
    IN  /\ r.raw = raw
        /\ Strip(raw) = <<>> =>
              /\ r.street_number = NoneStr /\ r.street_name = NoneStr
              /\ r.unit = NoneStr /\ r.community = NoneStr /\ r.district = NoneStr
              /\ r.parish = NoneStr /\ r.kingston_sector = NoneInt
        /\ Strip(raw) # <<>> =>
              /\ r.parish = IF idx = 0 THEN NoneStr
                            ELSE IF KingstonSearch(segs[idx]) # NoneStr THEN KINGSTON_NAME
                            ELSE ResolveParish(segs[idx])
              /\ r.district = IF isDistrict THEN Strip(DistrictMatch(before[1]))
                              ELSE NoneStr
              /\ r.unit = IF isUnit THEN afterDistrict[1] ELSE NoneStr
              /\ r.street_number = IF isStreet THEN StreetMatch(afterUnit[1]).number
                                   ELSE NoneStr
              /\ r.community = IF n = 0 THEN NoneStr ELSE left[n]
              /\ r.street_name = IF isStreet THEN Strip(StreetMatch(afterUnit[1]).name)
                                 ELSE IF n >= 2 THEN Join(SubSeq(left, 1, n - 1))
                                 ELSE NoneStr

\* C17 as stated: parse_address follows the rule (parish fixed by the last
\* segment that contains 'Kingston <1-2 digits>' or resolves to a parish; of
\* the segments before it a leading 'District of X', then a leading unit,
\* then a leading '<digits[letter]> <name>'; the last one left is the
\* community and the others the street name if none was set; raw is the
\* input; a blank input leaves all else None), where a unit is any segment
\* that starts with Lot, Shop, Suite, Apt, Apartment, Unit, Floor or Flat
C17_ParseAddress ==
    fcall.op = "parse_address" => ParseRule(fcall.address, fcall.result, StartsWithUnitWord)

\* C17 amended: the same rule, where a unit is a segment that starts with one
\* of these words followed by whitespace and a letter, digit, underscore or
\* hyphen
C17_ParseAddressUnitToken ==
    fcall.op = "parse_address" => ParseRule(fcall.address, fcall.result, StartsWithUnitToken)

\* parse_address on 'Lot 5, Unity Hall, saint  andrew': the parish from the
\* last segment, a unit, and a community that starts with a unit word
C17_Witness ==
    /\ fcall.op = "parse_address"
    /\ fcall.result.parish = <<"S", "t", ".", " ", "A", "n", "d", "r", "e", "w">>
    /\ fcall.result.unit = <<"L", "o", "t", " ", "5">>
    /\ fcall.result.community = <<"U", "n", "i", "t", "y", " ", "H", "a", "l", "l">>
    /\ fcall.result.street_name = NoneStr

(***************************************************************************)
(* Kingston sectors                                                        *)
(***************************************************************************)
\* the sector a one- or two-digit number n written after 'Kingston' stands for
SectorOf(n) == IF 1 <= n /\ n <= 20 THEN n ELSE NoneInt

\* the address is `before`, then 'Kingston', then `gap`, then the number n
\* written with the prefix `zero`, then `after`
KingstonText(before, gap, zero, n, after) ==
    before \o KINGSTON_NAME \o gap \o zero \o IntToStr(n) \o after

\* C18: get_kingston_sector returns n when the first 'Kingston <1-2 digits>'
\* of the address has 1 <= n <= 20, None when that number is 0 or above 20
\* and None when the address has no such text (no 'kingston' at all, or
\* 'Kingston' followed by three digits); parse_address gives a sector that is
\* None or in 1..20, and a sector only with the parish 'Kingston'
C18_KingstonSector ==
    /\ fcall.op = "get_kingston_sector" =>
          /\ fcall.result = NoneInt \/ fcall.result \in 1..20
          /\ ~Contains(Lower(fcall.address), Lower(KINGSTON_NAME)) => fcall.result = NoneInt
          /\ \A n \in 0..MaxNumber :
                /\ fcall.address = KingstonText(<<>>, <<" ">>, <<>>, n, <<>>) =>
                      fcall.result = IF n <= 99 THEN SectorOf(n) ELSE NoneInt
                /\ fcall.address = KingstonText(<<>>, <<" ">>, <<"0">>, n, <<>>) =>
                      fcall.result = IF n <= 9 THEN SectorOf(n) ELSE NoneInt
                /\ fcall.address = KingstonText(<<"5", " ", "X", ",", " ">>, <<" ", " ">>, <<>>, n,
                                                <<",", " ">> \o KINGSTON_NAME \o <<" ", "7">>) =>
                      fcall.result = IF n <= 99 THEN SectorOf(n) ELSE 7
    /\ fcall.op = "parse_address" =>
          /\ fcall.result.kingston_sector = NoneInt \/ fcall.result.kingston_sector \in 1..20
          /\ fcall.result.kingston_sector # NoneInt => fcall.result.parish = KINGSTON_NAME
          /\ \A n \in 0..MaxNumber :
                fcall.address = KingstonText(<<>>, <<" ">>, <<>>, n, <<>>) =>
                   fcall.result.kingston_sector = IF n <= 99 THEN SectorOf(n) ELSE NoneInt

\* get_kingston_sector('5 X, Kingston  20, Kingston 7') returned 20
C18_Witness ==
    /\ fcall.op = "get_kingston_sector"
    /\ fcall.address = KingstonText(<<"5", " ", "X", ",", " ">>, <<" ", " ">>, <<>>, 20,
                                    <<",", " ">> \o KINGSTON_NAME \o <<" ", "7">>)
    /\ fcall.result = 20

(***************************************************************************)
(* Parish canonicalization                                                 *)
(***************************************************************************)
CanonicalNames == {PARISH_NAMES[k] : k \in 1..Len(PARISH_NAMES)}

\* the canonical name 'St. X'
SaintName(x) == <<"S", "t", ".", " ">> \o x

\* C19: the parish of parse_address and the result of extract_parish are None
\* or one of the 14 names of PARISH_NAMES; a segment written 'Saint X', 'St X'
\* or 'St. X', as written, in upper or in lower case, alone or as the last
\* segment, resolves to 'St. X'; every key of PARISH_ALIASES resolves to one
\* of the 14 names
C19_Canonical ==
    /\ fcall.op = "parse_address" =>
          fcall.result.parish = NoneStr \/ fcall.result.parish \in CanonicalNames
    /\ fcall.op = "extract_parish" =>
          fcall.result = NoneStr \/ fcall.result \in CanonicalNames
    /\ \A x \in SaintParishes : \A f \in SaintSpellings(x) :
          /\ fcall.op \in {"_resolve_parish", "extract_parish"} /\ fcall.address = f =>
                fcall.result = SaintName(x)
          /\ fcall.op = "parse_address" /\ fcall.address = f =>
                fcall.result.parish = SaintName(x)
          /\ fcall.op = "extract_parish" /\ fcall.address = <<"3", " ", "A", ",", " ">> \o f =>
                fcall.result = SaintName(x)
          /\ fcall.op = "parse_address" /\ fcall.address = <<"3", " ", "A", ",", " ">> \o f =>
                fcall.result.parish = SaintName(x)
    /\ fcall.op = "_resolve_parish" =>
          /\ fcall.result = NoneStr \/ fcall.result \in CanonicalNames
          /\ fcall.address \in AliasKeys => fcall.result \in CanonicalNames

\* _resolve_parish('SAINT ANN') returned 'St. Ann'
C19_Witness ==
    /\ fcall.op = "_resolve_parish"
    /\ fcall.address = <<"S", "A", "I", "N", "T", " ", "A", "N", "N">>
    /\ fcall.result = <<"S", "t", ".", " ", "A", "n", "n">>

(***************************************************************************)
(* normalize_address and format_address                                    *)
(***************************************************************************)
\* the field is there: neither None nor the empty string
Present(field) == field # NoneStr /\ field # <<>>

IsPart(part) == part # <<>>

\* the five parts of a normalized address in their order, an empty part for
\* what the address lacks
PartsOf(p) ==
    << IF Present(p.unit) THEN p.unit ELSE <<>>,
       IF ~Present(p.street_name) THEN <<>>
       ELSE IF Present(p.street_number) THEN p.street_number \o <<" ">> \o p.street_name
       ELSE p.street_name,
       IF Present(p.community) THEN p.community ELSE <<>>,
       IF Present(p.district) THEN <<"D", "i", "s", "t", "r", "i", "c", "t", " ", "o", "f",
           " ">> \o p.district ELSE <<>>,
       IF ~Present(p.parish) THEN <<>>
       ELSE IF p.kingston_sector = NoneInt THEN p.parish
       ELSE p.parish \o <<" ">> \o IntToStr(p.kingston_sector) >>

\* C20: normalize_address returns the parts that are there (unit, street as
\* '<number> <name>' or the name alone, community, 'District of <district>',
\* parish with ' <sector>' when a sector is set) in this order with ', '
\* between them; a field that is None or empty adds nothing, nor does a
\* street_number without a street_name; format_address returns the same
\* string as normalize_address
C20_Normalize ==
    /\ fcall.op \in {"normalize_address", "format_address"} =>
          LET parts == SelectSeq(PartsOf(fcall.parsed), IsPart)
          IN  /\ fcall.result = Join(parts)
              /\ parts = <<>> => fcall.result = <<>>
    /\ fcall.op = "format_address" => fcall.result = fcall.normalized

\* normalize_address returned
\* 'Lot 5, 20 Barbican Road, May Pen, District of Accompong, Kingston 20'
C20_Witness ==
    /\ fcall.op = "normalize_address"
    /\ fcall.parsed.kingston_sector = 20
    /\ fcall.result = <<"L", "o", "t", " ", "5", ",", " ", "2", "0", " ", "B", "a", "r", "b",
        "i", "c", "a", "n", " ", "R", "o", "a", "d", ",", " ", "M", "a", "y", " ", "P", "e",
        "n", ",", " ", "D", "i", "s", "t", "r", "i", "c", "t", " ", "o", "f", " ", "A", "c",
        "c", "o", "m", "p", "o", "n", "g", ",", " ", "K", "i", "n", "g", "s", "t", "o", "n",
        " ", "2", "0">>

(***************************************************************************)
(* jamaica_trn: one digit of a valid number replaced                       *)
(***************************************************************************)
\* the valid TRN with the prefix p (callers have checked that there is one)
ValidTrnOf(p) == p \o <<DigitString[GetTrnCheckDigit(p) + 1]>>

\* is_valid_trn on a valid number and on the number with digit i replaced by d
CallIsValidTrnEdited(t, i, d) ==
    /\ fcall' = [op |-> "is_valid_trn edited", trn |-> t, pos |-> i,
                 edited |-> [t EXCEPT ![i] = d],
                 result |-> IsValidTrn(t),
                 edited_result |-> IsValidTrn([t EXCEPT ![i] = d])]
    /\ UNCHANGED toolFrame

NextChecksum ==
    NoToolCalled /\ \E p \in TrnPrefixes :
        /\ GetTrnCheckDigit(p) # NoneInt
        /\ \E i \in 1..9 : \E d \in DigitChars \ {ValidTrnOf(p)[i]} :
              CallIsValidTrnEdited(ValidTrnOf(p), i, d)

SpecChecksum == InitTrn /\ [][NextChecksum]_vars

\* C27: when is_valid_trn holds of nine digits, it does not hold of the nine
\* digits with any one of them replaced by a different digit
C27_SingleDigitError ==
    (/\ fcall.op = "is_valid_trn edited"
     /\ ExactlyDigits(fcall.trn, 9) /\ ExactlyDigits(fcall.edited, 9)
     /\ fcall.result
     /\ Cardinality({k \in 1..9 : fcall.trn[k] # fcall.edited[k]}) = 1)
    => ~fcall.edited_result

\* a valid number whose third digit was replaced: is_valid_trn rejects it
C27_Witness ==
    /\ fcall.op = "is_valid_trn edited"
    /\ fcall.result
    /\ fcall.pos = 3
    /\ fcall.trn[3] # fcall.edited[3]
    /\ ~fcall.edited_result

(***************************************************************************)
(* jamaica_holidays: displaced holidays                                    *)
(***************************************************************************)
\* the dates on which the holidays of a list other than the named one are listed
DatesOfOthers(hs, name) == {hs[i].date : i \in {j \in 1..Len(hs) : hs[j].name # name}}

\* the first day after the date d (an ISO date) that is not in a set of dates
NextAvailable(d, taken) ==
    LET first == CHOOSE n \in 1..10 :
                    /\ Fmt(Parse(d) + n) \notin taken
                    /\ \A m \in 1..(n - 1) : Fmt(Parse(d) + m) \in taken
    IN  Fmt(Parse(d) + first)

C24_Easter ==
    /\ hcall.op = "get_easter_sunday" =>
          /\ Weekday(Parse(hcall.result)) = 6
          /\ Iso(hcall.year, 3, 22) <= hcall.result
          /\ hcall.result <= Iso(hcall.year, 4, 25)
    /\ hcall.op = "_moveable_holidays" =>
          LET easter == Parse(hcall.easter)
              ash == Parse(Named(hcall.result, "Ash Wednesday").date)
              friday == Parse(Named(hcall.result, "Good Friday").date)
              monday == Parse(Named(hcall.result, "Easter Monday").date)
              heroes == Named(hcall.result, "National Heroes Day").date
          IN  /\ ash = easter - 46 /\ Weekday(ash) = 2
              /\ friday = easter - 2 /\ Weekday(friday) = 4
              /\ monday = easter + 1 /\ Weekday(monday) = 0
              /\ Weekday(Parse(heroes)) = 0
              /\ Iso(hcall.year, 10, 15) <= heroes
              /\ heroes <= Iso(hcall.year, 10, 21)

\* get_easter_sunday(2038) returned 2038-04-25, the latest date there is
C24_Witness ==
    /\ hcall.op = "get_easter_sunday"
    /\ hcall.year = 2038
    /\ hcall.result = Iso(2038, 4, 25)

(***************************************************************************)
(* POST /chat: failed requests                                             *)
(***************************************************************************)
\* every session of the store before a step is there after it, with the
\* same history
HistoriesKept ==
    \A k \in DOMAIN sessions :
        /\ k \in DOMAIN sessions'
        /\ GetHistory(sessions', objs', k) = GetHistory(sessions, objs, k)

\* what C25 says of every step of request r: the step that answers 503
\* leaves the store as it is; the step that starts the request, whether
\* retrieval then fails (500) or the LLM call begins, leaves every history as
\* it is and adds at most the request's session, with an empty history; the
\* step in which the LLM call fails (500) leaves the store as it is
C25_Steps ==
    \A r \in 1..MaxReqs :
        /\ (reqs[r].pc = "free" /\ reqs'[r].pc = "done" /\ reqs'[r].status = 503) =>
              /\ sessions' = sessions
              /\ objs' = objs
        /\ (reqs[r].pc = "free" /\ reqs'[r].pc \in {"awaiting", "done"}
                /\ reqs'[r].status # 503) =>
              /\ HistoriesKept
              /\ DOMAIN sessions' = DOMAIN sessions \cup {reqs'[r].sid}
              /\ reqs'[r].sid \notin DOMAIN sessions =>
                    GetHistory(sessions', objs', reqs'[r].sid) = <<>>
        /\ (reqs[r].pc = "awaiting" /\ reqs'[r].pc = "done" /\ reqs'[r].status = 500) =>
              /\ sessions' = sessions
              /\ objs' = objs

\* what C25 says of every state: a request answered 500 has a session in the
\* store, one answered 503 has none; after a failed LLM call the history
\* starts with what the request found, and is what it found when no other
\* request used the session; no history ends with a question that has no
\* answer
C25_Failed ==
    /\ \A r \in 1..MaxReqs :
          /\ (reqs[r].pc = "done" /\ reqs[r].status = 500) => Exists(sessions, reqs[r].sid)
          /\ (reqs[r].pc = "done" /\ reqs[r].status = 503) => reqs[r].sid = None
          /\ (reqs[r].pc = "done" /\ reqs[r].status = 500 /\ reqs[r].messages # <<>>) =>
                /\ IsPrefix(reqs[r].history, GetHistory(sessions, objs, reqs[r].sid))
                /\ (\A o \in 1..MaxReqs \ {r} : reqs[o].sid # reqs[r].sid) =>
                      GetHistory(sessions, objs, reqs[r].sid) = reqs[r].history
    /\ \A k \in DOMAIN sessions :
          LET h == GetHistory(sessions, objs, k)
          IN  h # <<>> => h[Len(h)].role = "assistant"
    /\ ~ragAvailable => sessions = EmptyMap

\* C25: a POST /chat that fails appends nothing: answered 500 because
\* retrieval or the LLM call raised, it leaves every history as it was, and
\* a session it created stays in the store with an empty history; answered
\* 503 because the pipeline is unavailable, it creates and changes no session
C25_FailedChat == [][C25_Steps]_vars /\ []C25_Failed

\* a request without a session ID whose LLM call failed, answered 500: its
\* session is in the store with an empty history, beside a session with a turn
C25_Witness ==
    /\ reqs[2].pc = "done" /\ reqs[2].status = 500
    /\ reqs[2].reqSid = None
    /\ reqs[2].messages # <<>>
    /\ GetHistory(sessions, objs, reqs[2].sid) = <<>>
    /\ reqs[1].pc = "done" /\ reqs[1].status = 200
    /\ reqs[1].sid # reqs[2].sid

(***************************************************************************)
(* POST /chat: overlapping requests                                        *)
(***************************************************************************)
\* the history is a sequence of turns: a 'user' message, then an 'assistant'
\* message, any number of times
IsTurns(h) ==
    /\ Len(h) % 2 = 0
    /\ \A i \in 1..Len(h) : h[i].role = IF i % 2 = 1 THEN "user" ELSE "assistant"

\* C26: whatever the interleaving of POST /chat requests, every session's
\* history has even length and alternates 'user', 'assistant', starting with
\* 'user'
C26_Alternates ==
    \A k \in DOMAIN sessions : IsTurns(GetHistory(sessions, objs, k))

\* two requests of one session, each begun before the other's LLM call
\* returned, both answered: the history holds their two turns
C26_Witness ==
    /\ \A r \in 1..2 : reqs[r].pc = "done" /\ reqs[r].status = 200
    /\ reqs[1].sid = reqs[2].sid
    /\ reqs[1].history = <<>> /\ reqs[2].history = <<>>
    /\ reqs[1].message # reqs[2].message
    /\ Len(GetHistory(sessions, objs, reqs[1].sid)) = 4
    /\ IsTurns(GetHistory(sessions, objs, reqs[1].sid))

(***************************************************************************)
(* addressing-api: geocoder                                                *)
(***************************************************************************)

\* _PARISH_ALIASES of the geocoder, in the order of the dictionary: <<alias, canonical>>
GEOCODER_PARISH_ALIASES == <<
    << <<"k", "i", "n", "g", "s", "t", "o", "n">>,
       <<"K", "i", "n", "g", "s", "t", "o", "n">> >>,
    << <<"k", "g", "n">>,
       <<"K", "i", "n", "g", "s", "t", "o", "n">> >>,
    << <<"s", "t", ".", " ", "a", "n", "d", "r", "e", "w">>,
       <<"S", "t", ".", " ", "A", "n", "d", "r", "e", "w">> >>,
    << <<"s", "t", " ", "a", "n", "d", "r", "e", "w">>,
       <<"S", "t", ".", " ", "A", "n", "d", "r", "e", "w">> >>,
    << <<"s", "a", "i", "n", "t", " ", "a", "n", "d", "r", "e", "w">>,
       <<"S", "t", ".", " ", "A", "n", "d", "r", "e", "w">> >>,
    << <<"s", "t", ".", " ", "c", "a", "t", "h", "e", "r", "i", "n", "e">>,
       <<"S", "t", ".", " ", "C", "a", "t", "h", "e", "r", "i", "n", "e">> >>,
    << <<"s", "t", " ", "c", "a", "t", "h", "e", "r", "i", "n", "e">>,
       <<"S", "t", ".", " ", "C", "a", "t", "h", "e", "r", "i", "n", "e">> >>,
    << <<"s", "a", "i", "n", "t", " ", "c", "a", "t", "h", "e", "r", "i", "n", "e">>,
       <<"S", "t", ".", " ", "C", "a", "t", "h", "e", "r", "i", "n", "e">> >>,
    << <<"c", "l", "a", "r", "e", "n", "d", "o", "n">>,
       <<"C", "l", "a", "r", "e", "n", "d", "o", "n">> >>,
    << <<"m", "a", "n", "c", "h", "e", "s", "t", "e", "r">>,
       <<"M", "a", "n", "c", "h", "e", "s", "t", "e", "r">> >>,
    << <<"s", "t", ".", " ", "e", "l", "i", "z", "a", "b", "e", "t", "h">>,
       <<"S", "t", ".", " ", "E", "l", "i", "z", "a", "b", "e", "t", "h">> >>,
    << <<"s", "t", " ", "e", "l", "i", "z", "a", "b", "e", "t", "h">>,
       <<"S", "t", ".", " ", "E", "l", "i", "z", "a", "b", "e", "t", "h">> >>,
    << <<"s", "a", "i", "n", "t", " ", "e", "l", "i", "z", "a", "b", "e", "t", "h">>,
       <<"S", "t", ".", " ", "E", "l", "i", "z", "a", "b", "e", "t", "h">> >>,
    << <<"w", "e", "s", "t", "m", "o", "r", "e", "l", "a", "n", "d">>,
       <<"W", "e", "s", "t", "m", "o", "r", "e", "l", "a", "n", "d">> >>,
    << <<"h", "a", "n", "o", "v", "e", "r">>,
       <<"H", "a", "n", "o", "v", "e", "r">> >>,
    << <<"s", "t", ".", " ", "j", "a", "m", "e", "s">>,
       <<"S", "t", ".", " ", "J", "a", "m", "e", "s">> >>,
    << <<"s", "t", " ", "j", "a", "m", "e", "s">>,
       <<"S", "t", ".", " ", "J", "a", "m", "e", "s">> >>,
    << <<"s", "a", "i", "n", "t", " ", "j", "a", "m", "e", "s">>,
       <<"S", "t", ".", " ", "J", "a", "m", "e", "s">> >>,
    << <<"t", "r", "e", "l", "a", "w", "n", "y">>,
       <<"T", "r", "e", "l", "a", "w", "n", "y">> >>,
    << <<"s", "t", ".", " ", "a", "n", "n">>,
       <<"S", "t", ".", " ", "A", "n", "n">> >>,
    << <<"s", "t", " ", "a", "n", "n">>,
       <<"S", "t", ".", " ", "A", "n", "n">> >>,
    << <<"s", "a", "i", "n", "t", " ", "a", "n", "n">>,
       <<"S", "t", ".", " ", "A", "n", "n">> >>,
    << <<"s", "t", ".", " ", "m", "a", "r", "y">>,
       <<"S", "t", ".", " ", "M", "a", "r", "y">> >>,
    << <<"s", "t", " ", "m", "a", "r", "y">>,
       <<"S", "t", ".", " ", "M", "a", "r", "y">> >>,
    << <<"s", "a", "i", "n", "t", " ", "m", "a", "r", "y">>,
       <<"S", "t", ".", " ", "M", "a", "r", "y">> >>,
    << <<"p", "o", "r", "t", "l", "a", "n", "d">>,
       <<"P", "o", "r", "t", "l", "a", "n", "d">> >>,
    << <<"s", "t", ".", " ", "t", "h", "o", "m", "a", "s">>,
       <<"S", "t", ".", " ", "T", "h", "o", "m", "a", "s">> >>,
    << <<"s", "t", " ", "t", "h", "o", "m", "a", "s">>,
       <<"S", "t", ".", " ", "T", "h", "o", "m", "a", "s">> >>,
    << <<"s", "a", "i", "n", "t", " ", "t", "h", "o", "m", "a", "s">>,
       <<"S", "t", ".", " ", "T", "h", "o", "m", "a", "s">> >> >>

\* _KNOWN_LOCATIONS; a coordinate is written in ten-thousandths of a degree
KNOWN_LOCATIONS == <<
    [name |-> <<"K", "i", "n", "g", "s", "t", "o", "n">>,
     lat |-> 179714, lng |-> -767920, type |-> "capital",
     parish |-> <<"K", "i", "n", "g", "s", "t", "o", "n">>],
    [name |-> <<"H", "a", "l", "f", " ", "W", "a", "y", " ", "T", "r", "e", "e">>,
     lat |-> 180106, lng |-> -767860, type |-> "capital",
     parish |-> <<"S", "t", ".", " ", "A", "n", "d", "r", "e", "w">>],
    [name |-> <<"S", "p", "a", "n", "i", "s", "h", " ", "T", "o", "w", "n">>,
     lat |-> 180093, lng |-> -769553, type |-> "capital",
     parish |-> <<"S", "t", ".", " ", "C", "a", "t", "h", "e", "r", "i", "n", "e">>],
    [name |-> <<"M", "a", "y", " ", "P", "e", "n">>,
     lat |-> 179658, lng |-> -772425, type |-> "capital",
     parish |-> <<"C", "l", "a", "r", "e", "n", "d", "o", "n">>],
    [name |-> <<"M", "a", "n", "d", "e", "v", "i", "l", "l", "e">>,
     lat |-> 180432, lng |-> -775033, type |-> "capital",
     parish |-> <<"M", "a", "n", "c", "h", "e", "s", "t", "e", "r">>],
    [name |-> <<"B", "l", "a", "c", "k", " ", "R", "i", "v", "e", "r">>,
     lat |-> 180269, lng |-> -778483, type |-> "capital",
     parish |-> <<"S", "t", ".", " ", "E", "l", "i", "z", "a", "b", "e", "t", "h">>],
    [name |-> <<"S", "a", "v", "a", "n", "n", "a", "-", "l", "a", "-", "M", "a", "r">>,
     lat |-> 182169, lng |-> -781342, type |-> "capital",
     parish |-> <<"W", "e", "s", "t", "m", "o", "r", "e", "l", "a", "n", "d">>],
    [name |-> <<"L", "u", "c", "e", "a">>,
     lat |-> 184511, lng |-> -781733, type |-> "capital",
     parish |-> <<"H", "a", "n", "o", "v", "e", "r">>],
    [name |-> <<"M", "o", "n", "t", "e", "g", "o", " ", "B", "a", "y">>,
     lat |-> 184762, lng |-> -779236, type |-> "capital",
     parish |-> <<"S", "t", ".", " ", "J", "a", "m", "e", "s">>],
    [name |-> <<"F", "a", "l", "m", "o", "u", "t", "h">>,
     lat |-> 184939, lng |-> -776556, type |-> "capital",
     parish |-> <<"T", "r", "e", "l", "a", "w", "n", "y">>],
    [name |-> <<"S", "t", ".", " ", "A", "n", "n", "'", "s", " ", "B", "a", "y">>,
     lat |-> 184342, lng |-> -772003, type |-> "capital",
     parish |-> <<"S", "t", ".", " ", "A", "n", "n">>],
    [name |-> <<"P", "o", "r", "t", " ", "M", "a", "r", "i", "a">>,
     lat |-> 183697, lng |-> -769167, type |-> "capital",
     parish |-> <<"S", "t", ".", " ", "M", "a", "r", "y">>],
    [name |-> <<"P", "o", "r", "t", " ", "A", "n", "t", "o", "n", "i", "o">>,
     lat |-> 181789, lng |-> -764506, type |-> "capital",
     parish |-> <<"P", "o", "r", "t", "l", "a", "n", "d">>],
    [name |-> <<"M", "o", "r", "a", "n", "t", " ", "B", "a", "y">>,
     lat |-> 178817, lng |-> -764083, type |-> "capital",
     parish |-> <<"S", "t", ".", " ", "T", "h", "o", "m", "a", "s">>],
    [name |-> <<"O", "c", "h", "o", " ", "R", "i", "o", "s">>,
     lat |-> 184085, lng |-> -771050, type |-> "town",
     parish |-> <<"S", "t", ".", " ", "A", "n", "n">>],
    [name |-> <<"N", "e", "g", "r", "i", "l">>,
     lat |-> 182681, lng |-> -783478, type |-> "town",
     parish |-> <<"W", "e", "s", "t", "m", "o", "r", "e", "l", "a", "n", "d">>],
    [name |-> <<"P", "o", "r", "t", "m", "o", "r", "e">>,
     lat |-> 179539, lng |-> -768875, type |-> "town",
     parish |-> <<"S", "t", ".", " ", "C", "a", "t", "h", "e", "r", "i", "n", "e">>],
    [name |-> <<"L", "i", "n", "s", "t", "e", "a", "d">>,
     lat |-> 181333, lng |-> -770333, type |-> "town",
     parish |-> <<"S", "t", ".", " ", "C", "a", "t", "h", "e", "r", "i", "n", "e">>],
    [name |-> <<"O", "l", "d", " ", "H", "a", "r", "b", "o", "u", "r">>,
     lat |-> 179417, lng |-> -771069, type |-> "town",
     parish |-> <<"S", "t", ".", " ", "C", "a", "t", "h", "e", "r", "i", "n", "e">>],
    [name |-> <<"C", "h", "r", "i", "s", "t", "i", "a", "n", "a">>,
     lat |-> 181833, lng |-> -774833, type |-> "town",
     parish |-> <<"M", "a", "n", "c", "h", "e", "s", "t", "e", "r">>],
    [name |-> <<"B", "u", "l", "l", " ", "S", "a", "v", "a", "n", "n", "a">>,
     lat |-> 178833, lng |-> -775833, type |-> "town",
     parish |-> <<"S", "t", ".", " ", "E", "l", "i", "z", "a", "b", "e", "t", "h">>],
    [name |-> <<"B", "o", "g", " ", "W", "a", "l", "k">>,
     lat |-> 181000, lng |-> -769833, type |-> "town",
     parish |-> <<"S", "t", ".", " ", "C", "a", "t", "h", "e", "r", "i", "n", "e">>],
    [name |-> <<"E", "w", "a", "r", "t", "o", "n">>,
     lat |-> 181833, lng |-> -770833, type |-> "town",
     parish |-> <<"S", "t", ".", " ", "C", "a", "t", "h", "e", "r", "i", "n", "e">>],
    [name |-> <<"L", "i", "o", "n", "e", "l", " ", "T", "o", "w", "n">>,
     lat |-> 178375, lng |-> -771486, type |-> "town",
     parish |-> <<"C", "l", "a", "r", "e", "n", "d", "o", "n">>],
    [name |-> <<"C", "h", "a", "p", "e", "l", "t", "o", "n">>,
     lat |-> 180833, lng |-> -772833, type |-> "town",
     parish |-> <<"C", "l", "a", "r", "e", "n", "d", "o", "n">>],
    [name |-> <<"A", "n", "n", "o", "t", "t", "o", " ", "B", "a", "y">>,
     lat |-> 182672, lng |-> -767681, type |-> "town",
     parish |-> <<"S", "t", ".", " ", "M", "a", "r", "y">>],
    [name |-> <<"B", "u", "f", "f", " ", "B", "a", "y">>,
     lat |-> 182333, lng |-> -766500, type |-> "town",
     parish |-> <<"P", "o", "r", "t", "l", "a", "n", "d">>],
    [name |-> <<"Y", "a", "l", "l", "a", "h", "s">>,
     lat |-> 178833, lng |-> -765500, type |-> "town",
     parish |-> <<"S", "t", ".", " ", "T", "h", "o", "m", "a", "s">>],
    [name |-> <<"R", "o", "s", "e", " ", "H", "a", "l", "l">>,
     lat |-> 185053, lng |-> -778531, type |-> "town",
     parish |-> <<"S", "t", ".", " ", "J", "a", "m", "e", "s">>],
    [name |-> <<"W", "h", "i", "t", "e", "h", "o", "u", "s", "e">>,
     lat |-> 180442, lng |-> -778764, type |-> "town",
     parish |-> <<"W", "e", "s", "t", "m", "o", "r", "e", "l", "a", "n", "d">>],
    [name |-> <<"D", "i", "s", "c", "o", "v", "e", "r", "y", " ", "B", "a", "y">>,
     lat |-> 184703, lng |-> -774097, type |-> "town",
     parish |-> <<"S", "t", ".", " ", "A", "n", "n">>],
    [name |-> <<"R", "u", "n", "a", "w", "a", "y", " ", "B", "a", "y">>,
     lat |-> 184589, lng |-> -773308, type |-> "town",
     parish |-> <<"S", "t", ".", " ", "A", "n", "n">>],
    [name |-> <<"B", "r", "o", "w", "n", "'", "s", " ", "T", "o", "w", "n">>,
     lat |-> 183917, lng |-> -772833, type |-> "town",
     parish |-> <<"S", "t", ".", " ", "A", "n", "n">>],
    [name |-> <<"S", "t", "o", "n", "y", " ", "H", "i", "l", "l">>,
     lat |-> 180536, lng |-> -767689, type |-> "town",
     parish |-> <<"S", "t", ".", " ", "A", "n", "d", "r", "e", "w">>],
    [name |-> <<"P", "a", "p", "i", "n", "e">>,
     lat |-> 180186, lng |-> -767456, type |-> "town",
     parish |-> <<"S", "t", ".", " ", "A", "n", "d", "r", "e", "w">>],
    [name |-> <<"C", "r", "o", "s", "s", " ", "R", "o", "a", "d", "s">>,
     lat |-> 180053, lng |-> -767856, type |-> "town",
     parish |-> <<"S", "t", ".", " ", "A", "n", "d", "r", "e", "w">>],
    [name |-> <<"L", "i", "g", "u", "a", "n", "e", "a">>,
     lat |-> 180172, lng |-> -767669, type |-> "town",
     parish |-> <<"S", "t", ".", " ", "A", "n", "d", "r", "e", "w">>],
    [name |-> <<"C", "o", "n", "s", "t", "a", "n", "t", " ", "S", "p", "r", "i", "n", "g">>,
     lat |-> 180306, lng |-> -767900, type |-> "town",
     parish |-> <<"S", "t", ".", " ", "A", "n", "d", "r", "e", "w">>],
    [name |-> <<"H", "o", "p", "e", " ", "P", "a", "s", "t", "u", "r", "e", "s">>,
     lat |-> 180225, lng |-> -767561, type |-> "town",
     parish |-> <<"S", "t", ".", " ", "A", "n", "d", "r", "e", "w">>],
    [name |-> <<"M", "o", "n", "a">>,
     lat |-> 180156, lng |-> -767472, type |-> "town",
     parish |-> <<"S", "t", ".", " ", "A", "n", "d", "r", "e", "w">>],
    [name |-> <<"R", "e", "d", " ", "H", "i", "l", "l", "s">>,
     lat |-> 180533, lng |-> -768278, type |-> "town",
     parish |-> <<"S", "t", ".", " ", "A", "n", "d", "r", "e", "w">>],
    [name |-> <<"B", "a", "r", "b", "i", "c", "a", "n">>,
     lat |-> 180250, lng |-> -767667, type |-> "town",
     parish |-> <<"S", "t", ".", " ", "A", "n", "d", "r", "e", "w">>],
    [name |-> <<"D", "e", "v", "o", "n", " ", "H", "o", "u", "s", "e">>,
     lat |-> 180114, lng |-> -767772, type |-> "landmark",
     parish |-> <<"S", "t", ".", " ", "A", "n", "d", "r", "e", "w">>],
    [name |-> <<"B", "o", "b", " ", "M", "a", "r", "l", "e", "y", " ", "M", "u", "s", "e", "u", "m">>,
     lat |-> 180131, lng |-> -767744, type |-> "landmark",
     parish |-> <<"S", "t", ".", " ", "A", "n", "d", "r", "e", "w">>],
    [name |-> <<"E", "m", "a", "n", "c", "i", "p", "a", "t", "i", "o", "n", " ", "P", "a", "r", "k">>,
     lat |-> 180075, lng |-> -767842, type |-> "landmark",
     parish |-> <<"S", "t", ".", " ", "A", "n", "d", "r", "e", "w">>],
    [name |-> <<"N", "a", "t", "i", "o", "n", "a", "l", " ", "H", "e", "r", "o", "e", "s", " ", "P", "a", "r", "k">>,
     lat |-> 179933, lng |-> -767961, type |-> "landmark",
     parish |-> <<"K", "i", "n", "g", "s", "t", "o", "n">>],
    [name |-> <<"V", "i", "c", "t", "o", "r", "i", "a", " ", "C", "r", "a", "f", "t", "s", " ", "M", "a", "r", "k", "e", "t">>,
     lat |-> 179703, lng |-> -767939, type |-> "landmark",
     parish |-> <<"K", "i", "n", "g", "s", "t", "o", "n">>],
    [name |-> <<"W", "a", "r", "d", " ", "T", "h", "e", "a", "t", "r", "e">>,
     lat |-> 179739, lng |-> -767953, type |-> "landmark",
     parish |-> <<"K", "i", "n", "g", "s", "t", "o", "n">>],
    [name |-> <<"I", "n", "s", "t", "i", "t", "u", "t", "e", " ", "o", "f", " ", "J", "a", "m", "a", "i", "c", "a">>,
     lat |-> 179719, lng |-> -767931, type |-> "landmark",
     parish |-> <<"K", "i", "n", "g", "s", "t", "o", "n">>],
    [name |-> <<"G", "o", "r", "d", "o", "n", " ", "H", "o", "u", "s", "e">>,
     lat |-> 179703, lng |-> -767944, type |-> "landmark",
     parish |-> <<"K", "i", "n", "g", "s", "t", "o", "n">>],
    [name |-> <<"C", "o", "r", "o", "n", "a", "t", "i", "o", "n", " ", "M", "a", "r", "k", "e", "t">>,
     lat |-> 179764, lng |-> -768000, type |-> "landmark",
     parish |-> <<"K", "i", "n", "g", "s", "t", "o", "n">>],
    [name |-> <<"U", "n", "i", "v", "e", "r", "s", "i", "t", "y", " ", "o", "f", " ", "t", "h", "e", " ", "W", "e", "s", "t", " ", "I", "n", "d", "i", "e", "s">>,
     lat |-> 180050, lng |-> -767494, type |-> "landmark",
     parish |-> <<"S", "t", ".", " ", "A", "n", "d", "r", "e", "w">>],
    [name |-> <<"U", "W", "I", " ", "M", "o", "n", "a">>,
     lat |-> 180050, lng |-> -767494, type |-> "landmark",
     parish |-> <<"S", "t", ".", " ", "A", "n", "d", "r", "e", "w">>],
    [name |-> <<"N", "o", "r", "m", "a", "n", " ", "M", "a", "n", "l", "e", "y", " ", "I", "n", "t", "e", "r", "n", "a", "t", "i", "o", "n", "a", "l", " ", "A", "i", "r", "p", "o", "r", "t">>,
     lat |-> 179356, lng |-> -767875, type |-> "landmark",
     parish |-> <<"K", "i", "n", "g", "s", "t", "o", "n">>],
    [name |-> <<"S", "a", "n", "g", "s", "t", "e", "r", " ", "I", "n", "t", "e", "r", "n", "a", "t", "i", "o", "n", "a", "l", " ", "A", "i", "r", "p", "o", "r", "t">>,
     lat |-> 185037, lng |-> -779133, type |-> "landmark",
     parish |-> <<"S", "t", ".", " ", "J", "a", "m", "e", "s">>],
    [name |-> <<"D", "u", "n", "n", "'", "s", " ", "R", "i", "v", "e", "r", " ", "F", "a", "l", "l", "s">>,
     lat |-> 184108, lng |-> -771347, type |-> "landmark",
     parish |-> <<"S", "t", ".", " ", "A", "n", "n">>],
    [name |-> <<"B", "l", "u", "e", " ", "M", "o", "u", "n", "t", "a", "i", "n", "s">>,
     lat |-> 181683, lng |-> -765856, type |-> "landmark",
     parish |-> <<"P", "o", "r", "t", "l", "a", "n", "d">>],
    [name |-> <<"P", "o", "r", "t", " ", "R", "o", "y", "a", "l">>,
     lat |-> 179369, lng |-> -768411, type |-> "landmark",
     parish |-> <<"K", "i", "n", "g", "s", "t", "o", "n">>],
    [name |-> <<"F", "o", "r", "t", " ", "C", "h", "a", "r", "l", "e", "s">>,
     lat |-> 179361, lng |-> -768408, type |-> "landmark",
     parish |-> <<"K", "i", "n", "g", "s", "t", "o", "n">>],
    [name |-> <<"H", "o", "p", "e", " ", "B", "o", "t", "a", "n", "i", "c", "a", "l", " ", "G", "a", "r", "d", "e", "n", "s">>,
     lat |-> 180131, lng |-> -767500, type |-> "landmark",
     parish |-> <<"S", "t", ".", " ", "A", "n", "d", "r", "e", "w">>],
    [name |-> <<"H", "e", "l", "l", "s", "h", "i", "r", "e", " ", "B", "e", "a", "c", "h">>,
     lat |-> 178872, lng |-> -768892, type |-> "landmark",
     parish |-> <<"S", "t", ".", " ", "C", "a", "t", "h", "e", "r", "i", "n", "e">>],
    [name |-> <<"L", "i", "m", "e", " ", "C", "a", "y">>,
     lat |-> 178975, lng |-> -768367, type |-> "landmark",
     parish |-> <<"K", "i", "n", "g", "s", "t", "o", "n">>],
    [name |-> <<"Y", "S", " ", "F", "a", "l", "l", "s">>,
     lat |-> 181722, lng |-> -777500, type |-> "landmark",
     parish |-> <<"S", "t", ".", " ", "E", "l", "i", "z", "a", "b", "e", "t", "h">>],
    [name |-> <<"B", "a", "m", "b", "o", "o", " ", "A", "v", "e", "n", "u", "e">>,
     lat |-> 180833, lng |-> -776167, type |-> "landmark",
     parish |-> <<"S", "t", ".", " ", "E", "l", "i", "z", "a", "b", "e", "t", "h">>],
    [name |-> <<"T", "r", "e", "a", "s", "u", "r", "e", " ", "B", "e", "a", "c", "h">>,
     lat |-> 178639, lng |-> -777628, type |-> "landmark",
     parish |-> <<"S", "t", ".", " ", "E", "l", "i", "z", "a", "b", "e", "t", "h">>],
    [name |-> <<"F", "r", "e", "n", "c", "h", "m", "a", "n", "'", "s", " ", "C", "o", "v", "e">>,
     lat |-> 181911, lng |-> -764094, type |-> "landmark",
     parish |-> <<"P", "o", "r", "t", "l", "a", "n", "d">>],
    [name |-> <<"B", "o", "s", "t", "o", "n", " ", "B", "a", "y">>,
     lat |-> 181889, lng |-> -763794, type |-> "landmark",
     parish |-> <<"P", "o", "r", "t", "l", "a", "n", "d">>],
    [name |-> <<"R", "e", "a", "c", "h", " ", "F", "a", "l", "l", "s">>,
     lat |-> 181300, lng |-> -763353, type |-> "landmark",
     parish |-> <<"P", "o", "r", "t", "l", "a", "n", "d">>],
    [name |-> <<"B", "l", "u", "e", " ", "L", "a", "g", "o", "o", "n">>,
     lat |-> 181914, lng |-> -764236, type |-> "landmark",
     parish |-> <<"P", "o", "r", "t", "l", "a", "n", "d">>],
    [name |-> <<"F", "i", "r", "e", "f", "l", "y">>,
     lat |-> 183833, lng |-> -769000, type |-> "landmark",
     parish |-> <<"S", "t", ".", " ", "M", "a", "r", "y">>],
    [name |-> <<"R", "i", "o", " ", "G", "r", "a", "n", "d", "e">>,
     lat |-> 181808, lng |-> -764461, type |-> "landmark",
     parish |-> <<"P", "o", "r", "t", "l", "a", "n", "d">>],
    [name |-> <<"M", "a", "r", "t", "h", "a", " ", "B", "r", "a", "e", " ", "R", "i", "v", "e", "r">>,
     lat |-> 184978, lng |-> -776589, type |-> "landmark",
     parish |-> <<"T", "r", "e", "l", "a", "w", "n", "y">>],
    [name |-> <<"G", "r", "e", "e", "n", " ", "G", "r", "o", "t", "t", "o", " ", "C", "a", "v", "e", "s">>,
     lat |-> 184389, lng |-> -773419, type |-> "landmark",
     parish |-> <<"S", "t", ".", " ", "A", "n", "n">>],
    [name |-> <<"M", "y", "s", "t", "i", "c", " ", "M", "o", "u", "n", "t", "a", "i", "n">>,
     lat |-> 184117, lng |-> -771064, type |-> "landmark",
     parish |-> <<"S", "t", ".", " ", "A", "n", "n">>],
    [name |-> <<"K", "i", "n", "g", "s", "t", "o", "n", " ", "1">>,
     lat |-> 179750, lng |-> -767950, type |-> "sector",
     parish |-> <<"K", "i", "n", "g", "s", "t", "o", "n">>],
    [name |-> <<"K", "i", "n", "g", "s", "t", "o", "n", " ", "2">>,
     lat |-> 179761, lng |-> -767900, type |-> "sector",
     parish |-> <<"K", "i", "n", "g", "s", "t", "o", "n">>],
    [name |-> <<"K", "i", "n", "g", "s", "t", "o", "n", " ", "3">>,
     lat |-> 179767, lng |-> -767867, type |-> "sector",
     parish |-> <<"K", "i", "n", "g", "s", "t", "o", "n">>],
    [name |-> <<"K", "i", "n", "g", "s", "t", "o", "n", " ", "4">>,
     lat |-> 179775, lng |-> -767833, type |-> "sector",
     parish |-> <<"K", "i", "n", "g", "s", "t", "o", "n">>],
    [name |-> <<"K", "i", "n", "g", "s", "t", "o", "n", " ", "5">>,
     lat |-> 179944, lng |-> -767872, type |-> "sector",
     parish |-> <<"K", "i", "n", "g", "s", "t", "o", "n">>],
    [name |-> <<"K", "i", "n", "g", "s", "t", "o", "n", " ", "6">>,
     lat |-> 180072, lng |-> -767700, type |-> "sector",
     parish |-> <<"K", "i", "n", "g", "s", "t", "o", "n">>],
    [name |-> <<"K", "i", "n", "g", "s", "t", "o", "n", " ", "7">>,
     lat |-> 180197, lng |-> -767797, type |-> "sector",
     parish |-> <<"S", "t", ".", " ", "A", "n", "d", "r", "e", "w">>],
    [name |-> <<"K", "i", "n", "g", "s", "t", "o", "n", " ", "8">>,
     lat |-> 180250, lng |-> -767667, type |-> "sector",
     parish |-> <<"S", "t", ".", " ", "A", "n", "d", "r", "e", "w">>],
    [name |-> <<"K", "i", "n", "g", "s", "t", "o", "n", " ", "9">>,
     lat |-> 180350, lng |-> -767800, type |-> "sector",
     parish |-> <<"S", "t", ".", " ", "A", "n", "d", "r", "e", "w">>],
    [name |-> <<"K", "i", "n", "g", "s", "t", "o", "n", " ", "1", "0">>,
     lat |-> 180100, lng |-> -768042, type |-> "sector",
     parish |-> <<"S", "t", ".", " ", "A", "n", "d", "r", "e", "w">>],
    [name |-> <<"K", "i", "n", "g", "s", "t", "o", "n", " ", "1", "1">>,
     lat |-> 179917, lng |-> -768094, type |-> "sector",
     parish |-> <<"K", "i", "n", "g", "s", "t", "o", "n">>],
    [name |-> <<"K", "i", "n", "g", "s", "t", "o", "n", " ", "1", "2">>,
     lat |-> 179750, lng |-> -768056, type |-> "sector",
     parish |-> <<"K", "i", "n", "g", "s", "t", "o", "n">>],
    [name |-> <<"K", "i", "n", "g", "s", "t", "o", "n", " ", "1", "3">>,
     lat |-> 179861, lng |-> -767703, type |-> "sector",
     parish |-> <<"K", "i", "n", "g", "s", "t", "o", "n">>],
    [name |-> <<"K", "i", "n", "g", "s", "t", "o", "n", " ", "1", "4">>,
     lat |-> 179953, lng |-> -767606, type |-> "sector",
     parish |-> <<"K", "i", "n", "g", "s", "t", "o", "n">>],
    [name |-> <<"K", "i", "n", "g", "s", "t", "o", "n", " ", "1", "5">>,
     lat |-> 179833, lng |-> -767533, type |-> "sector",
     parish |-> <<"K", "i", "n", "g", "s", "t", "o", "n">>],
    [name |-> <<"K", "i", "n", "g", "s", "t", "o", "n", " ", "1", "6">>,
     lat |-> 179683, lng |-> -767467, type |-> "sector",
     parish |-> <<"K", "i", "n", "g", "s", "t", "o", "n">>],
    [name |-> <<"K", "i", "n", "g", "s", "t", "o", "n", " ", "1", "7">>,
     lat |-> 179606, lng |-> -767878, type |-> "sector",
     parish |-> <<"K", "i", "n", "g", "s", "t", "o", "n">>],
    [name |-> <<"K", "i", "n", "g", "s", "t", "o", "n", " ", "1", "9">>,
     lat |-> 180386, lng |-> -768153, type |-> "sector",
     parish |-> <<"S", "t", ".", " ", "A", "n", "d", "r", "e", "w">>],
    [name |-> <<"K", "i", "n", "g", "s", "t", "o", "n", " ", "2", "0">>,
     lat |-> 180467, lng |-> -767633, type |-> "sector",
     parish |-> <<"S", "t", ".", " ", "A", "n", "d", "r", "e", "w">>] >>

\* _LOCATION_INDEX in insertion order: the key is the name in lower case
LOCATION_INDEX ==
    [k \in 1..Len(KNOWN_LOCATIONS) |->
        [key |-> Lower(KNOWN_LOCATIONS[k].name),
         lat |-> KNOWN_LOCATIONS[k].lat, lng |-> KNOWN_LOCATIONS[k].lng,
         parish |-> KNOWN_LOCATIONS[k].parish, type |-> KNOWN_LOCATIONS[k].type,
         canon |-> KNOWN_LOCATIONS[k].name]]

\* key in _LOCATION_INDEX
InLocationIndex(key) == \E k \in 1..Len(LOCATION_INDEX) : LOCATION_INDEX[k].key = key

\* _LOCATION_INDEX[key]
LocationOf(key) ==
    LOCATION_INDEX[CHOOSE k \in 1..Len(LOCATION_INDEX) : LOCATION_INDEX[k].key = key]

\* geocode_address returning None
NoGeocode ==
    [lat |-> 0, lng |-> 0, confidence |-> 0, parish |-> NoneStr,
     match_name |-> NoneStr, match_type |-> "<None>"]

\* the dict geocode_address returns for an entry of the index; the confidence
\* is written in hundredths
GeocodeResult(loc, confidence, match_type) ==
    [lat |-> loc.lat, lng |-> loc.lng, confidence |-> confidence, parish |-> loc.parish,
     match_name |-> loc.canon, match_type |-> match_type]

\* _normalize_saint
NormalizeSaint(text) == SaintFrom(text, 1)

\* the geocoder's _extract_parish: the canonical name of the first alias, in the
\* order of the dictionary, that the lowered address contains
GeocoderExtractParish(address) ==
    LET lowered == Lower(address)
        hits == { k \in 1..Len(GEOCODER_PARISH_ALIASES) :
                    Contains(lowered, GEOCODER_PARISH_ALIASES[k][1]) }
    IN  IF hits = {} THEN NoneStr
        ELSE GEOCODER_PARISH_ALIASES[CHOOSE k \in hits : \A j \in hits : k <= j][2]

\* geocode_address, step 2: the Kingston sector pattern
SectorLookup(normalized) ==
    LET group == KingstonSearch(normalized)
        sector_key == <<"k", "i", "n", "g", "s", "t", "o", "n", " ">> \o group
    IN  IF group # NoneStr /\ InLocationIndex(sector_key)
        THEN GeocodeResult(LocationOf(sector_key), 85, LocationOf(sector_key).type)
        ELSE NoGeocode

\* geocode_address, step 3: the first comma-separated segment that is a key
SegmentLookup(normalized) ==
    LET segments == Segments(normalized)
        hits == { k \in 1..Len(segments) : InLocationIndex(Lower(segments[k])) }
    IN  IF hits = {} THEN NoGeocode
        ELSE LET seg_key == Lower(segments[CHOOSE k \in hits : \A j \in hits : k <= j])
             IN  GeocodeResult(LocationOf(seg_key), 80, LocationOf(seg_key).type)

\* geocode_address, step 4: the loop keeps the first key of the greatest length
\* among the keys the lowered address contains
SubstringLookup(normalized) ==
    LET lowered_addr == Lower(normalized)
        hits == { k \in 1..Len(LOCATION_INDEX) : Contains(lowered_addr, LOCATION_INDEX[k].key) }
    IN  IF hits = {} THEN NoGeocode
        ELSE LET best == CHOOSE k \in hits : \A j \in hits :
                             \/ Len(LOCATION_INDEX[j].key) < Len(LOCATION_INDEX[k].key)
                             \/ Len(LOCATION_INDEX[j].key) = Len(LOCATION_INDEX[k].key) /\ k <= j
             IN  GeocodeResult(LOCATION_INDEX[best], 60, LOCATION_INDEX[best].type)

\* geocode_address, step 5: the first capital of the parish the address names
ParishFallback(normalized) ==
    LET parish == GeocoderExtractParish(normalized)
        capitals == { k \in 1..Len(LOCATION_INDEX) :
                        LOCATION_INDEX[k].parish = parish /\ LOCATION_INDEX[k].type = "capital" }
    IN  IF parish = NoneStr \/ capitals = {} THEN NoGeocode
        ELSE [GeocodeResult(LOCATION_INDEX[CHOOSE k \in capitals : \A j \in capitals : k <= j],
                            30, "parish_fallback")
                EXCEPT !.parish = parish]

\* geocode_address with the segments (step 3) tried before the sector pattern (step 2)
GeocodeAddress_SegmentsFirst(address) ==
    LET cleaned == Strip(address)
        normalized == NormalizeSaint(cleaned)
        key == Lower(normalized)
    IN  IF cleaned = <<>> THEN NoGeocode
        ELSE IF InLocationIndex(key) THEN GeocodeResult(LocationOf(key), 100, LocationOf(key).type)
        ELSE IF SegmentLookup(normalized) # NoGeocode THEN SegmentLookup(normalized)
        ELSE IF SectorLookup(normalized) # NoGeocode THEN SectorLookup(normalized)
        ELSE IF SubstringLookup(normalized) # NoGeocode THEN SubstringLookup(normalized)
        ELSE ParishFallback(normalized)

\* geocode_address
GeocodeAddress(address) ==
    LET cleaned == Strip(address)
        normalized == NormalizeSaint(cleaned)
        key == Lower(normalized)
    IN  IF cleaned = <<>> THEN NoGeocode
        ELSE IF InLocationIndex(key) THEN GeocodeResult(LocationOf(key), 100, LocationOf(key).type)
        ELSE IF SectorLookup(normalized) # NoGeocode THEN SectorLookup(normalized)
        ELSE IF SegmentLookup(normalized) # NoGeocode THEN SegmentLookup(normalized)
        ELSE IF SubstringLookup(normalized) # NoGeocode THEN SubstringLookup(normalized)
        ELSE ParishFallback(normalized)

\* the segments the geocoded addresses are made of
GeocodeSegments == {
    <<"D", "e", "v", "o", "n", " ", "H", "o", "u", "s", "e">>,
    <<"K", "i", "n", "g", "s", "t", "o", "n", " ", "1", "0">>,
    <<"k", "i", "n", "g", "s", "t", "o", "n", " ", "1", "8">>,
    <<"s", "a", "i", "n", "t", " ", " ", "a", "n", "d", "r", "e", "w">>,
    <<"U", "W", "I", " ", "M", "o", "n", "a", " ", "c", "a", "m", "p", "u", "s">>,
    <<"P", "a", "p", "i", "n", "e", " ", "t", "o", " ", "N", "e", "g", "r", "i", "l">>,
    <<"1", "2", " ", "M", "a", "i", "n", " ", "S", "t", "r", "e", "e", "t">>,
    <<" ">> }

\* the addresses of n segments
RECURSIVE GeocodeAddressesOf(_)
GeocodeAddressesOf(n) ==
    IF n = 1 THEN GeocodeSegments
    ELSE { a \o <<",", " ">> \o seg : a \in GeocodeAddressesOf(n - 1), seg \in GeocodeSegments }

\* '', 'kgn', 'Portland', 'Kingston10 Portland', ' saint  ann's bay\n',
\* 'Trelawny,St Mary', 'Hanover parish'
GeocodeRareAddresses == {
    <<>>,
    <<"k", "g", "n">>,
    <<"P", "o", "r", "t", "l", "a", "n", "d">>,
    <<"K", "i", "n", "g", "s", "t", "o", "n", "1", "0", " ", "P", "o", "r", "t", "l", "a", "n", "d">>,
    <<" ", "s", "a", "i", "n", "t", " ", " ", "a", "n", "n", "'", "s", " ", "b", "a", "y", "\n">>,
    <<"T", "r", "e", "l", "a", "w", "n", "y", ",", "S", "t", " ", "M", "a", "r", "y">>,
    <<"H", "a", "n", "o", "v", "e", "r", " ", "p", "a", "r", "i", "s", "h">> }

GeocodeInputs == GeocodeRareAddresses \cup UNION { GeocodeAddressesOf(n) : n \in 1..MaxSegs }

\* geocode_address(address)
CallGeocodeAddress(address) ==
    /\ fcall' = [op |-> "geocode_address", address |-> address,
                 result |-> GeocodeAddress(address)]
    /\ UNCHANGED toolFrame

(***************************************************************************)
(* addressing-api: parish_lookup                                           *)
(***************************************************************************)

MaxParishes == 2

\* the centres of Kingston, St. James and Hanover, in ten-thousandths of a degree
ParishCentres == { <<179714, -767920>>, <<184762, -779236>>, <<184508, -781702>> }

\* a record of parishes.json: its code and its coordinates
ParishRecords ==
    { [code |-> c, lat |-> p[1], lng |-> p[2]] : c \in {"KIN", "SJA", "HAN"}, p \in ParishCentres }

\* the lists _load_parishes can return: data["parishes"] of the data file
RECURSIVE ParishListsOf(_)
ParishListsOf(n) ==
    IF n = 0 THEN { <<>> }
    ELSE { Append(l, r) : l \in ParishListsOf(n - 1), r \in ParishRecords }

ParishLists == UNION { ParishListsOf(n) : n \in 0..MaxParishes }

\* the coordinates find_parish is called with: two centres, a point between
\* the centres, points just inside and just outside 150 km of Kingston and
\* of Hanover, a point in Cuba, (0, 0), the North Pole, and the antipodes of
\* the Kingston and St. James centres
Coordinates == {
    <<179714, -767920>>,
    <<184762, -779236>>,
    <<182000, -774000>>,
    <<179714, -753739>>,
    <<179714, -753738>>,
    <<184508, -795922>>,
    <<184508, -795923>>,
    <<200000, -760000>>,
    <<0, 0>>,
    <<900000, 0>>,
    <<-179714, 1032080>>,
    <<-184762, 1020764>> }

\* _haversine on the coordinates above as double arithmetic evaluates lines 50-57:
\* the result in whole metres, and whether math.sqrt(1 - a) raises ValueError
\* because rounding made a exceed 1 (the metres are then those of a = 1)
HaversineTable == {
    [lat1 |-> 179714, lng1 |-> -767920, lat2 |-> 179714, lng2 |-> -767920, metres |-> 0, raises |-> FALSE],
    [lat1 |-> 179714, lng1 |-> -767920, lat2 |-> 184762, lng2 |-> -779236, metres |-> 132041, raises |-> FALSE],
    [lat1 |-> 179714, lng1 |-> -767920, lat2 |-> 184508, lng2 |-> -781702, metres |-> 155025, raises |-> FALSE],
    [lat1 |-> 184762, lng1 |-> -779236, lat2 |-> 179714, lng2 |-> -767920, metres |-> 132041, raises |-> FALSE],
    [lat1 |-> 184762, lng1 |-> -779236, lat2 |-> 184762, lng2 |-> -779236, metres |-> 0, raises |-> FALSE],
    [lat1 |-> 184762, lng1 |-> -779236, lat2 |-> 184508, lng2 |-> -781702, metres |-> 26162, raises |-> FALSE],
    [lat1 |-> 182000, lng1 |-> -774000, lat2 |-> 179714, lng2 |-> -767920, metres |-> 69110, raises |-> FALSE],
    [lat1 |-> 182000, lng1 |-> -774000, lat2 |-> 184762, lng2 |-> -779236, metres |-> 63225, raises |-> FALSE],
    [lat1 |-> 182000, lng1 |-> -774000, lat2 |-> 184508, lng2 |-> -781702, metres |-> 85949, raises |-> FALSE],
    [lat1 |-> 179714, lng1 |-> -753739, lat2 |-> 179714, lng2 |-> -767920, metres |-> 149991, raises |-> FALSE],
    [lat1 |-> 179714, lng1 |-> -753739, lat2 |-> 184762, lng2 |-> -779236, metres |-> 275077, raises |-> FALSE],
    [lat1 |-> 179714, lng1 |-> -753739, lat2 |-> 184508, lng2 |-> -781702, metres |-> 300128, raises |-> FALSE],
    [lat1 |-> 179714, lng1 |-> -753738, lat2 |-> 179714, lng2 |-> -767920, metres |-> 150002, raises |-> FALSE],
    [lat1 |-> 179714, lng1 |-> -753738, lat2 |-> 184762, lng2 |-> -779236, metres |-> 275088, raises |-> FALSE],
    [lat1 |-> 179714, lng1 |-> -753738, lat2 |-> 184508, lng2 |-> -781702, metres |-> 300138, raises |-> FALSE],
    [lat1 |-> 184508, lng1 |-> -795922, lat2 |-> 179714, lng2 |-> -767920, metres |-> 300533, raises |-> FALSE],
    [lat1 |-> 184508, lng1 |-> -795922, lat2 |-> 184762, lng2 |-> -779236, metres |-> 176011, raises |-> FALSE],
    [lat1 |-> 184508, lng1 |-> -795922, lat2 |-> 184508, lng2 |-> -781702, metres |-> 149990, raises |-> FALSE],
    [lat1 |-> 184508, lng1 |-> -795923, lat2 |-> 179714, lng2 |-> -767920, metres |-> 300543, raises |-> FALSE],
    [lat1 |-> 184508, lng1 |-> -795923, lat2 |-> 184762, lng2 |-> -779236, metres |-> 176021, raises |-> FALSE],
    [lat1 |-> 184508, lng1 |-> -795923, lat2 |-> 184508, lng2 |-> -781702, metres |-> 150001, raises |-> FALSE],
    [lat1 |-> 200000, lng1 |-> -760000, lat2 |-> 179714, lng2 |-> -767920, metres |-> 240448, raises |-> FALSE],
    [lat1 |-> 200000, lng1 |-> -760000, lat2 |-> 184762, lng2 |-> -779236, metres |-> 263608, raises |-> FALSE],
    [lat1 |-> 200000, lng1 |-> -760000, lat2 |-> 184508, lng2 |-> -781702, metres |-> 285637, raises |-> FALSE],
    [lat1 |-> 0, lng1 |-> 0, lat2 |-> 179714, lng2 |-> -767920, metres |-> 8611736, raises |-> FALSE],
    [lat1 |-> 0, lng1 |-> 0, lat2 |-> 184762, lng2 |-> -779236, metres |-> 8734887, raises |-> FALSE],
    [lat1 |-> 0, lng1 |-> 0, lat2 |-> 184508, lng2 |-> -781702, metres |-> 8760649, raises |-> FALSE],
    [lat1 |-> 900000, lng1 |-> 0, lat2 |-> 179714, lng2 |-> -767920, metres |-> 8009214, raises |-> FALSE],
    [lat1 |-> 900000, lng1 |-> 0, lat2 |-> 184762, lng2 |-> -779236, metres |-> 7953083, raises |-> FALSE],
    [lat1 |-> 900000, lng1 |-> 0, lat2 |-> 184508, lng2 |-> -781702, metres |-> 7955908, raises |-> FALSE],
    [lat1 |-> -179714, lng1 |-> 1032080, lat2 |-> 179714, lng2 |-> -767920, metres |-> 20015086, raises |-> FALSE],
    [lat1 |-> -179714, lng1 |-> 1032080, lat2 |-> 184762, lng2 |-> -779236, metres |-> 19883045, raises |-> FALSE],
    [lat1 |-> -179714, lng1 |-> 1032080, lat2 |-> 184508, lng2 |-> -781702, metres |-> 19860061, raises |-> FALSE],
    [lat1 |-> -184762, lng1 |-> 1020764, lat2 |-> 179714, lng2 |-> -767920, metres |-> 19883045, raises |-> FALSE],
    [lat1 |-> -184762, lng1 |-> 1020764, lat2 |-> 184762, lng2 |-> -779236, metres |-> 20015086, raises |-> TRUE],
    [lat1 |-> -184762, lng1 |-> 1020764, lat2 |-> 184508, lng2 |-> -781702, metres |-> 19988924, raises |-> FALSE] }

\* float("inf")
INFINITY == 2147483647

\* ValueError: math domain error, raised inside _haversine
HaversineError == -1

\* the great-circle distance of the two points, in metres
GreatCircle(lat1, lng1, lat2, lng2) ==
    (CHOOSE t \in HaversineTable :
        t.lat1 = lat1 /\ t.lng1 = lng1 /\ t.lat2 = lat2 /\ t.lng2 = lng2).metres

\* _haversine
Haversine(lat1, lng1, lat2, lng2) ==
    LET t == CHOOSE t \in HaversineTable :
                 t.lat1 = lat1 /\ t.lng1 = lng1 /\ t.lat2 = lat2 /\ t.lng2 = lng2
    IN  IF t.raises THEN HaversineError ELSE t.metres

\* find_parish returning None
NoParish == [code |-> "<None>", lat |-> 0, lng |-> 0]

\* find_parish left by the ValueError of _haversine
ParishError == [code |-> "<ValueError>", lat |-> 0, lng |-> 0]

\* the loop of find_parish from parishes[i] on, and the test after it:
\* 150 km are 150000 m
RECURSIVE FindParishFrom(_, _, _, _, _, _)
FindParishFrom(parishes, lat, lng, i, best, best_dist) ==
    IF i > Len(parishes)
    THEN IF best_dist > 150000 THEN NoParish ELSE best
    ELSE LET dist == Haversine(lat, lng, parishes[i].lat, parishes[i].lng)
         IN  IF dist = HaversineError THEN ParishError
             ELSE IF dist < best_dist
             THEN FindParishFrom(parishes, lat, lng, i + 1, parishes[i], dist)
             ELSE FindParishFrom(parishes, lat, lng, i + 1, best, best_dist)

\* find_parish(lat, lng) when _load_parishes returns parishes
FindParish(parishes, lat, lng) == FindParishFrom(parishes, lat, lng, 1, NoParish, INFINITY)

CallFindParish(parishes, lat, lng) ==
    /\ fcall' = [op |-> "find_parish", parishes |-> parishes, lat |-> lat, lng |-> lng,
                 result |-> FindParish(parishes, lat, lng)]
    /\ UNCHANGED toolFrame

NextGeocode ==
    \/ NoToolCalled /\ \E a \in GeocodeInputs : CallGeocodeAddress(a)
    \/ NoToolCalled /\ \E ps \in ParishLists : \E c \in Coordinates :
                          CallFindParish(ps, c[1], c[2])

SpecGeocode == InitAddr /\ [][NextGeocode]_vars

(***************************************************************************)
(* C21                                                                     *)
(***************************************************************************)

\* the names of the known locations, in lower case
KnownKeys == { LOCATION_INDEX[k].key : k \in 1..Len(LOCATION_INDEX) }

\* the number of the first strategy that succeeds on the normalized address,
\* 0 when none does: 1 the whole text is a known name, 2 the Kingston sector
\* pattern names a known sector, 3 a comma segment is a known name, 4 a known
\* name is contained in the text, 5 a parish is named in the text
FirstStrategy(normalized) ==
    LET text == Lower(normalized)
        segs == Segments(normalized)
    IN  IF text \in KnownKeys THEN 1
        ELSE IF /\ KingstonSearch(normalized) # NoneStr
                /\ (Lower(KINGSTON_NAME) \o <<" ">> \o KingstonSearch(normalized)) \in KnownKeys
        THEN 2
        ELSE IF \E k \in 1..Len(segs) : Lower(segs[k]) \in KnownKeys THEN 3
        ELSE IF \E key \in KnownKeys : Contains(text, key) THEN 4
        ELSE IF \E k \in 1..Len(GEOCODER_PARISH_ALIASES) :
                    Contains(text, GEOCODER_PARISH_ALIASES[k][1])
        THEN 5
        ELSE 0

\* C21: geocode_address returns None for an empty or whitespace-only address and
\* when no strategy succeeds; otherwise it returns the result of the first
\* strategy that succeeds, in the order: the whole address is a known location
\* (confidence 1.0), the Kingston sector pattern (0.85), the first comma segment
\* that is a known location (0.8), the longest known location name contained in
\* the address (0.6), the capital of a parish named in the address (0.3, match
\* type 'parish_fallback'); so every confidence returned is one of these five.
\* Names are compared in lower case, after 'Saint'/'St' is rewritten to 'St. '.
C21_OrderedLookup ==
    fcall.op = "geocode_address" =>
        LET r == fcall.result
            cleaned == Strip(fcall.address)
            normalized == NormalizeSaint(cleaned)
            text == Lower(normalized)
            segs == Segments(normalized)
            rank == FirstStrategy(normalized)
            name == Lower(r.match_name)
        IN  /\ (r = NoGeocode) <=> (cleaned = <<>> \/ rank = 0)
            /\ r # NoGeocode =>
                 /\ r.confidence \in {100, 85, 80, 60, 30}
                 /\ r.confidence = CASE rank = 1 -> 100 [] rank = 2 -> 85 [] rank = 3 -> 80
                                     [] rank = 4 -> 60 [] rank = 5 -> 30
                 /\ \E k \in 1..Len(KNOWN_LOCATIONS) :
                        /\ KNOWN_LOCATIONS[k].name = r.match_name
                        /\ KNOWN_LOCATIONS[k].lat = r.lat
                        /\ KNOWN_LOCATIONS[k].lng = r.lng
                        /\ rank = 5 => /\ KNOWN_LOCATIONS[k].type = "capital"
                                       /\ KNOWN_LOCATIONS[k].parish = r.parish
                 /\ rank = 1 => name = text
                 /\ rank = 2 => name = Lower(KINGSTON_NAME) \o <<" ">> \o KingstonSearch(normalized)
                 /\ rank = 3 => \E k \in 1..Len(segs) :
                                   /\ Lower(segs[k]) = name
                                   /\ \A j \in 1..(k - 1) : Lower(segs[j]) \notin KnownKeys
                 /\ rank = 4 => /\ Contains(text, name)
                                /\ \A key \in KnownKeys : Contains(text, key) => Len(key) <= Len(name)
                 /\ rank = 5 => /\ r.match_type = "parish_fallback"
                                /\ \E k \in 1..Len(GEOCODER_PARISH_ALIASES) :
                                      /\ GEOCODER_PARISH_ALIASES[k][2] = r.parish
                                      /\ Contains(text, GEOCODER_PARISH_ALIASES[k][1])

\* 'Devon House, Kingston 10': the first segment is a known location, and the
\* sector pattern, tried before the segments, gives Kingston 10 with 0.85
C21_Witness ==
    /\ fcall.op = "geocode_address"
    /\ fcall.address = <<"D", "e", "v", "o", "n", " ", "H", "o", "u", "s", "e", ",", " ">>
                          \o KINGSTON_NAME \o <<" ", "1", "0">>
    /\ fcall.result.confidence = 85
    /\ fcall.result.match_name = KINGSTON_NAME \o <<" ", "1", "0">>

(***************************************************************************)
(* C22                                                                     *)
(***************************************************************************)

\* C22: find_parish(lat, lng) returns the parish record whose centre has the
\* smallest haversine distance to the coordinate, the first listed one on a
\* tie, and returns None exactly when that smallest distance is more than
\* 150 km, that is when the coordinate is more than 150 km from every centre.
C22_Nearest ==
    fcall.op = "find_parish" =>
        LET ps == fcall.parishes
            d(k) == GreatCircle(fcall.lat, fcall.lng, ps[k].lat, ps[k].lng)
        IN  IF \A k \in 1..Len(ps) : d(k) > 150000
            THEN fcall.result = NoParish
            ELSE \E k \in 1..Len(ps) :
                    /\ fcall.result = ps[k]
                    /\ \A j \in 1..Len(ps) : d(k) <= d(j)
                    /\ \A j \in 1..(k - 1) : d(k) < d(j)
====
